---- MODULE Spec2Model ----
(***************************************************************************)
(* Verification model of the Mauboussin analyzer:                          *)
(*   - fetchWithRetry (frontend/src/utils/api.js)                          *)
(*   - analyzeCompany of the useCompanyAnalysis hook                       *)
(*   - the backend's response cache, rate limiters and route handlers      *)
(*   - analyzeCompany of the page component, with its paywall              *)
(* Each subsystem has its own specification over its own variables.        *)
(***************************************************************************)
EXTENDS Integers, Sequences, FiniteSets, TLC

VARIABLES
    call,             \* the fetchWithRetry invocation of SpecRetry
    companyInput,     \* hook state: the text typed by the user (its kind)
    backendConnected, \* hook state
    isAnalyzing,      \* hook state
    analysis,         \* hook state
    error,            \* hook state
    phase,            \* where the running analyzeCompany is suspended
    ticker,           \* local `ticker` of analyzeCompany
    tasks,            \* the fetchWithRetry calls of the run, by request name
    yahooData,        \* local `yahooData` of analyzeCompany
    earningsData,     \* local `earningsData` of analyzeCompany
    flaky,            \* the request of the run whose attempts may fail transiently
    now,              \* backend clock, in seconds
    cache,            \* NodeCache data: cache key -> [v, t] or NoEntry
    nextSweep,        \* when the checkperiod timer of the cache fires next
    env,              \* process.env: which provider credentials are configured
    reqs,             \* the requests that reached a route, by arrival number
    answered,         \* per cache key: the last status-200 body a handler sent, and when
    limNow,           \* clock of the rate limiters, in milliseconds
    apiStore,         \* apiLimiter's store: client IP -> [hits, resetTime]
    strictStore,      \* strictLimiter's store: client IP -> [hits, resetTime]
    passed,           \* per limiter: requests passed on since the counter was last reset
    probe,            \* an observer counting handled requests in one 15-minute interval
    lastOut,          \* what happened to the last request that met a limiter
    arg,              \* the argument of the parseFinancialNumber call of SpecParse
    ret,              \* what that call returned
    payload,          \* the JSON bodies the backend sends for the data requests
    financialData,    \* local `financialData` of analyzeCompany
    other,            \* a second analyzeCompany call of the hook: where it is
    isPaid,           \* component state
    analysisCount,    \* component state
    showPaywall,      \* component state
    localStorage,     \* mauboussin_paid and mauboussin_analysis_count, as read back
    freeAnalyses      \* history: successful analyses obtained while not paid

paywallVars == <<isPaid, analysisCount, showPaywall, localStorage, freeAnalyses>>

hookVars == <<companyInput, backendConnected, isAnalyzing, analysis, error,
              phase, ticker, tasks, yahooData, earningsData, flaky,
              payload, financialData, other, paywallVars>>

serverVars == <<now, cache, nextSweep, env, reqs, answered>>

limiterVars == <<limNow, apiStore, strictStore, passed, probe, lastOut>>

parseVars == <<arg, ret>>

vars == <<call, companyInput, backendConnected, isAnalyzing, analysis, error,
          phase, ticker, tasks, yahooData, earningsData, flaky,
          now, cache, nextSweep, env, reqs, answered,
          limNow, apiStore, strictStore, passed, probe, lastOut,
          arg, ret, payload, financialData,
          other, isPaid, analysisCount, showPaywall, localStorage, freeAnalyses>>

(***************************************************************************)
(* Bounds                                                                  *)
(***************************************************************************)
MaxRetriesBound == 4      \* largest maxRetries argument tried in SpecRetry
MaxRequests == 2          \* requests that reach a backend route in SpecServer
MaxLimiterTicks == 2      \* half-windows the limiter clock runs for
MaxOverLimit == 1         \* requests counted beyond a limit before the window ends
MaxTicks == 7             \* checkperiod intervals the backend clock runs for
MaxStrLen == 5            \* longest string of SpecParse's alphabet given to parseFinancialNumber
MaxYears == 6             \* longest statement history a payload of SpecBuild holds
MaxAnalyses == 2          \* analysisCount beyond which SpecPaywall starts no further run

(***************************************************************************)
(* fetchWithRetry                                                          *)
(***************************************************************************)
DefaultMaxRetries == 3

RECURSIVE Pow2(_)
Pow2(n) == IF n = 0 THEN 1 ELSE 2 * Pow2(n - 1)

\* Math.pow(2, i) * 1000
WaitTime(i) == Pow2(i) * 1000

NoError == "none"
NetworkError == "Network error"
MaxRetriesExceeded == "Max retries exceeded"

Response(status, body) == [kind |-> "response", status |-> status, body |-> body]
Rejection == [kind |-> "error", status |-> 0, body |-> "none"]
NoResult == [kind |-> "none", status |-> 0, body |-> "none"]

\* what one fetch(url, options) can settle with
Outcomes ==
    { Response(200, "data"), Response(200, "empty"), Response(404, "err"),
      Response(500, "err"), Response(429, "err"), Rejection }

IsTransient(o) == o.kind = "error" \/ (o.kind = "response" /\ o.status = 429)

\* response.ok
Ok(r) == r.kind = "response" /\ r.status >= 200 /\ r.status <= 299

\* state of a call right after `fetch(url, options)` of the first iteration
NewCall(maxRetries) ==
    [ pc        |-> IF maxRetries > 0 THEN "fetching" ELSE "thrown",
      i         |-> 0,
      max       |-> maxRetries,
      attempts  |-> IF maxRetries > 0 THEN 1 ELSE 0,
      waits     |-> << >>,
      lastError |-> NoError,
      result    |-> NoResult,
      thrown    |-> IF maxRetries > 0 THEN NoError ELSE MaxRetriesExceeded,
      hist      |-> << >> ]

IdleCall ==
    [ pc |-> "idle", i |-> 0, max |-> 0, attempts |-> 0, waits |-> << >>,
      lastError |-> NoError, result |-> NoResult, thrown |-> NoError,
      hist |-> << >> ]

\* `throw lastError || new Error('Max retries exceeded')`
ThrowLast(c) ==
    [c EXCEPT !.pc = "thrown",
              !.thrown = IF c.lastError # NoError THEN c.lastError
                         ELSE MaxRetriesExceeded]

\* mutant of NextIteration: the loop test off by one (`i <= maxRetries`)
NextIterationOffByOne(c) ==
    IF c.i + 1 <= c.max
    THEN [c EXCEPT !.pc = "fetching", !.i = c.i + 1, !.attempts = c.attempts + 1]
    ELSE ThrowLast([c EXCEPT !.i = c.i + 1])

\* the for loop's `i++` and test, then the next `fetch` or the final throw
NextIteration(c) ==
    IF c.i + 1 < c.max
    THEN [c EXCEPT !.pc = "fetching", !.i = c.i + 1, !.attempts = c.attempts + 1]
    ELSE ThrowLast([c EXCEPT !.i = c.i + 1])

\* mutant of OnSettle: every non-ok response is retried like a 429
OnSettleRetryNonOk(c, o) ==
    LET h == [c EXCEPT !.hist = Append(c.hist, o)] IN
    IF o.kind = "response"
    THEN IF ~Ok(o)
         THEN [h EXCEPT !.pc = "backoff", !.waits = Append(c.waits, WaitTime(c.i))]
         ELSE [h EXCEPT !.pc = "returned", !.result = o]
    ELSE LET e == [h EXCEPT !.lastError = NetworkError] IN
         IF c.i < c.max - 1
         THEN [e EXCEPT !.pc = "backoff", !.waits = Append(c.waits, WaitTime(c.i))]
         ELSE NextIteration(e)

\* mutant of OnSettle: a network error is rethrown at once instead of retried
OnSettleNoRetryOnError(c, o) ==
    LET h == [c EXCEPT !.hist = Append(c.hist, o)] IN
    IF o.kind = "response"
    THEN IF o.status = 429
         THEN [h EXCEPT !.pc = "backoff", !.waits = Append(c.waits, WaitTime(c.i))]
         ELSE [h EXCEPT !.pc = "returned", !.result = o]
    ELSE ThrowLast([h EXCEPT !.lastError = NetworkError])

\* the awaited fetch settles with outcome o: the loop body up to its next await
OnSettle(c, o) ==
    LET h == [c EXCEPT !.hist = Append(c.hist, o)] IN
    IF o.kind = "response"
    THEN IF o.status = 429
         THEN [h EXCEPT !.pc = "backoff", !.waits = Append(c.waits, WaitTime(c.i))]
         ELSE [h EXCEPT !.pc = "returned", !.result = o]
    ELSE LET e == [h EXCEPT !.lastError = NetworkError] IN
         IF c.i < c.max - 1
         THEN [e EXCEPT !.pc = "backoff", !.waits = Append(c.waits, WaitTime(c.i))]
         ELSE NextIteration(e)

\* the setTimeout of the backoff fires
OnTimer(c) == NextIteration(c)

Settled(c) == c.pc \in {"returned", "thrown"}

(***************************************************************************)
(* JavaScript values.  A string is the sequence of its characters.  A      *)
(* number is NaN, +Infinity, -Infinity or the finite value                 *)
(* (n / d) * 10^e, kept exactly: the rounding of doubles is not modelled,  *)
(* their range is.                                                         *)
(***************************************************************************)
JsUndefined == [t |-> "undefined"]
JsNull == [t |-> "null"]
JsObject == [t |-> "object"]
Str(s) == [t |-> "string", s |-> s]
Arr(a) == [t |-> "array", a |-> a]

NaN == [t |-> "number", k |-> "nan", n |-> 0, d |-> 1, e |-> 0]
Infinity == [t |-> "number", k |-> "inf", n |-> 1, d |-> 1, e |-> 0]
NegInfinity == [t |-> "number", k |-> "inf", n |-> -1, d |-> 1, e |-> 0]
Zero == [t |-> "number", k |-> "fin", n |-> 0, d |-> 1, e |-> 0]

\* largest and smallest decimal order of magnitude of a non-zero double
MaxMagnitude == 308
MinMagnitude == -324

Abs(x) == IF x < 0 THEN -x ELSE x
Sign(x) == IF x < 0 THEN -1 ELSE 1

RECURSIVE Gcd(_, _)
Gcd(a, b) == IF b = 0 THEN a ELSE Gcd(b, a % b)

RECURSIVE NumDigits(_)
NumDigits(x) == IF x < 10 THEN 1 ELSE 1 + NumDigits(x \div 10)

\* the unique form of (n / d) * 10^e, n # 0, d > 0: d has no factor 2 or 5 and
\* n no factor 10
RECURSIVE Canon(_, _, _)
Canon(n, d, e) ==
    IF d % 2 = 0 THEN Canon(n * 5, d \div 2, e - 1)
    ELSE IF d % 5 = 0 THEN Canon(n * 2, d \div 5, e - 1)
    ELSE IF n % 10 = 0 THEN Canon(n \div 10, d, e + 1)
    ELSE [t |-> "number", k |-> "fin", n |-> n, d |-> d, e |-> e]

\* the double for (n / d) * 10^e, d # 0: overflow gives an infinity,
\* underflow gives 0
\* the decimal order of magnitude of the canonical form c
Magnitude(c) == NumDigits(Abs(c.n)) - NumDigits(c.d) + c.e

\* the double for the canonical form c
Ranged(c) ==
    IF Magnitude(c) > MaxMagnitude THEN (IF c.n > 0 THEN Infinity ELSE NegInfinity)
    ELSE IF Magnitude(c) < MinMagnitude THEN Zero
    ELSE c

\* (n / d) * 10^e with the common factor g of n and d taken out
Reduced(n, d, e, g) ==
    Ranged(Canon((Sign(n) * Sign(d) * Abs(n)) \div g, Abs(d) \div g, e))

Num(n, d, e) ==
    IF n = 0 THEN Zero ELSE Reduced(n, d, e, Gcd(Abs(n), Abs(d)))

Whole(x) == Num(x, 1, 0)

IsNumber(v) == v.t = "number"
IsFinite(v) == v.t = "number" /\ v.k = "fin"
IsNaN(v) == v.t = "number" /\ v.k = "nan"
IsInfinite(v) == v.t = "number" /\ v.k = "inf"
IsZero(v) == IsFinite(v) /\ v.n = 0

\* ToBoolean(v), as `||`, `!` and `if` apply it
Truthy(v) ==
    CASE v.t = "undefined" -> FALSE
      [] v.t = "null" -> FALSE
      [] v.t = "string" -> v.s # << >>
      [] v.t = "number" -> ~(IsNaN(v) \/ IsZero(v))
      [] OTHER -> TRUE

\* a || b
OrElse(a, b) == IF Truthy(a) THEN a ELSE b

\* a === b for the values the model compares: NaN equals nothing
StrictEquals(a, b) == ~IsNaN(a) /\ ~IsNaN(b) /\ a = b

RECURSIVE Pow10(_)
Pow10(k) == IF k = 0 THEN 1 ELSE 10 * Pow10(k - 1)

SignOf(v) == IF v.n < 0 THEN -1 ELSE 1
Signed(sg, v) == IF sg < 0 THEN (IF v = Infinity THEN NegInfinity ELSE Infinity) ELSE v

\* a / b
Div(a, b) ==
    IF IsNaN(a) \/ IsNaN(b) THEN NaN
    ELSE IF IsInfinite(a) THEN (IF IsInfinite(b) THEN NaN ELSE Signed(SignOf(b), a))
    ELSE IF IsInfinite(b) THEN Zero
    ELSE IF IsZero(b) THEN (IF IsZero(a) THEN NaN ELSE Signed(SignOf(a), Infinity))
    ELSE Num(a.n * b.d, a.d * b.n, a.e - b.e)

\* a * b
Mul(a, b) ==
    IF IsNaN(a) \/ IsNaN(b) THEN NaN
    ELSE IF IsInfinite(a) \/ IsInfinite(b)
    THEN (IF IsZero(a) \/ IsZero(b) THEN NaN ELSE Signed(SignOf(a) * SignOf(b), Infinity))
    ELSE Num(a.n * b.n, a.d * b.d, a.e + b.e)

\* -a
Neg(a) == IF IsNumber(a) /\ ~IsNaN(a) THEN [a EXCEPT !.n = -a.n] ELSE a

\* a + b for finite a and b, both brought to the exponent m
AddAligned(a, b, m) ==
    Num(a.n * Pow10(a.e - m) * b.d + b.n * Pow10(b.e - m) * a.d, a.d * b.d, m)

\* a + b
Add(a, b) ==
    IF IsNaN(a) \/ IsNaN(b) THEN NaN
    ELSE IF IsInfinite(a) THEN (IF IsInfinite(b) /\ a # b THEN NaN ELSE a)
    ELSE IF IsInfinite(b) THEN b
    ELSE AddAligned(a, b, IF a.e < b.e THEN a.e ELSE b.e)

\* a - b
Sub(a, b) == Add(a, Neg(b))

\* Math.abs(a)
MathAbs(a) == IF IsNumber(a) /\ ~IsNaN(a) THEN [a EXCEPT !.n = Abs(a.n)] ELSE a

(***************************************************************************)
(* parseFloat and parseFinancialNumber                                     *)
(***************************************************************************)
Digits == {"0", "1", "2", "3", "4", "5", "6", "7", "8", "9"}
WhiteSpace == {" "}
InfinityWord == <<"I", "n", "f", "i", "n", "i", "t", "y">>
NoneWord == <<"N", "o", "n", "e">>

DigitValue(c) ==
    CASE c = "0" -> 0 [] c = "1" -> 1 [] c = "2" -> 2 [] c = "3" -> 3 [] c = "4" -> 4
      [] c = "5" -> 5 [] c = "6" -> 6 [] c = "7" -> 7 [] c = "8" -> 8 [] c = "9" -> 9

\* s with its first k characters dropped
Drop(s, k) == IF k >= Len(s) THEN << >> ELSE SubSeq(s, k + 1, Len(s))

StartsWith(s, w) == Len(s) >= Len(w) /\ SubSeq(s, 1, Len(w)) = w

\* number of leading characters of s that are in set
RECURSIVE Span(_, _)
Span(s, set) ==
    IF s # << >> /\ Head(s) \in set THEN 1 + Span(Tail(s), set) ELSE 0

\* value of the digit string s read after the digits worth acc
RECURSIVE DigitsValue(_, _)
DigitsValue(s, acc) ==
    IF s = << >> THEN acc ELSE DigitsValue(Tail(s), acc * 10 + DigitValue(Head(s)))

\* the exponent part at the head of s: an `e` or `E`, an optional sign and
\* at least one digit; 0 when s does not start with one
ExponentDigits(sg, ds, k) ==
    IF k = 0 THEN 0 ELSE sg * DigitsValue(SubSeq(ds, 1, k), 0)

ExponentSigned(sg, ds) == ExponentDigits(sg, ds, Span(ds, Digits))

ExponentAfter(r) ==
    ExponentSigned(IF r # << >> /\ Head(r) = "-" THEN -1 ELSE 1,
                   IF r # << >> /\ Head(r) \in {"-", "+"} THEN Tail(r) ELSE r)

ExponentOf(s) ==
    IF s = << >> \/ Head(s) \notin {"e", "E"} THEN 0 ELSE ExponentAfter(Tail(s))

\* the StrDecimalLiteral that is the longest prefix of the string s, after
\* leading white space; NaN when there is none
\* u is the text after the sign: ni integer digits, then, when dot = 1, a
\* dot and nf fraction digits
DecimalLiteral(sg, u, ni, dot, nf) ==
    IF StartsWith(u, InfinityWord) THEN Signed(sg, Infinity)
    ELSE IF ni + nf = 0 THEN NaN
    ELSE Num(sg * DigitsValue(SubSeq(u, 1, ni) \o SubSeq(u, ni + dot + 1, ni + dot + nf), 0),
             1, ExponentOf(Drop(u, ni + dot + nf)) - nf)

FractionPart(sg, u, ni, dot) ==
    DecimalLiteral(sg, u, ni, dot, IF dot = 1 THEN Span(Drop(u, ni + 1), Digits) ELSE 0)

IntegerPart(sg, u, ni) ==
    FractionPart(sg, u, ni, IF ni < Len(u) /\ u[ni + 1] = "." THEN 1 ELSE 0)

SignedLiteral(t) ==
    IntegerPart(IF t # << >> /\ Head(t) = "-" THEN -1 ELSE 1,
                IF t # << >> /\ Head(t) \in {"-", "+"} THEN Tail(t) ELSE t,
                Span(IF t # << >> /\ Head(t) \in {"-", "+"} THEN Tail(t) ELSE t, Digits))

ParseFloatString(s) == SignedLiteral(Drop(s, Span(s, WhiteSpace)))

\* ToString(v), for the values whose text parseFloat can read a number from
ToStringOf(v) ==
    CASE v.t = "string" -> v.s
      [] v.t = "array" -> << >>
      [] v.t = "null" -> << >>
      [] v.t = "undefined" -> << >>
      [] v.t = "object" -> <<"[", "o", "b", "j", "e", "c", "t", " ", "O", "b", "j", "e", "c", "t", "]">>
      [] OTHER -> << >>

\* parseFloat(v): the argument is converted to a string first.  A number's
\* text reads back as the same number; an array's text is its elements joined
\* by commas, so only its first element can be read
ParseFloat(v) ==
    CASE v.t = "number" -> v
      [] v.t = "string" -> ParseFloatString(v.s)
      [] v.t = "array" ->
            IF v.a = << >> THEN NaN
            ELSE IF v.a[1].t = "number" THEN v.a[1]
            ELSE ParseFloatString(ToStringOf(v.a[1]))
      [] v.t = "null" -> ParseFloatString(<<"n", "u", "l", "l">>)
      [] v.t = "undefined" -> ParseFloatString(<<"u", "n", "d", "e", "f", "i", "n", "e", "d">>)
      [] OTHER -> ParseFloatString(ToStringOf(v))

\* `if (value === "None" || value === null || ...) return 0; return parseFloat(value) || 0`
parseFinancialNumber(value) ==
    IF value = Str(NoneWord) \/ value = JsNull \/ value = JsUndefined \/ value = Str(<< >>)
    THEN Zero
    ELSE OrElse(ParseFloat(value), Zero)

(***************************************************************************)
(* Backend: response cache, cacheMiddleware and route handlers             *)
(***************************************************************************)
StdTTL == 3600
CheckPeriod == 600


\* the routes of the backend, by what their handler does
Routes == {"income", "overview", "quote", "analyze"}

\* req.originalUrl of the requests the model sends
Urls ==
    { <<"income", "A">>, <<"overview", "A">>, <<"quote", "A">>, <<"analyze", "-">> }

\* routes registered with cacheMiddleware
Cached(u) == u[1] \in {"income", "overview", "quote"}

\* routes whose handler reads ALPHA_VANTAGE_API_KEY / ANTHROPIC_API_KEY
NeedsAlphaKey(u) == u[1] \in {"income", "overview"}
NeedsAnthropicKey(u) == u[1] = "analyze"

\* mutant of KeyConfigured: the handler does not test its API key
KeyConfiguredUnchecked(u, e) == TRUE

\* `if (!apiKey)` of the handler of u, under process.env e
KeyConfigured(u, e) ==
    /\ NeedsAlphaKey(u) => e.alpha
    /\ NeedsAnthropicKey(u) => e.anthropic

ErrKeyNotConfigured(u) ==
    IF NeedsAnthropicKey(u) THEN "Anthropic API key not configured"
    ELSE "Alpha Vantage API key not configured"

Body(u, kind) == [url |-> u, kind |-> kind]
NoBody == [url |-> <<"-", "-">>, kind |-> "none"]

\* an absent cache key, and the `undefined` that NodeCache.get returns for it
NoEntry == [v |-> NoBody, t |-> 0]
Miss == NoBody

\* mutant of CacheGet: an expired entry is returned until the sweep removes it
CacheGetNoExpiry(c, k, t) ==
    IF c[k] # NoEntry THEN c[k].v ELSE Miss

\* NodeCache.get(key): the value, or undefined for an absent or expired key
CacheGet(c, k, t) ==
    IF c[k] # NoEntry /\ ~(c[k].t < t) THEN c[k].v ELSE Miss

\* NodeCache.get deletes the key it finds expired
CacheAfterGet(c, k, t) ==
    IF c[k] # NoEntry /\ c[k].t < t THEN [c EXCEPT ![k] = NoEntry] ELSE c

\* mutant of CacheSet: the entry lives for checkperiod instead of stdTTL
CacheSetShortTTL(c, k, v, t) == [c EXCEPT ![k] = [v |-> v, t |-> t + CheckPeriod]]

\* NodeCache.set(key, value) with the default TTL
CacheSet(c, k, v, t) == [c EXCEPT ![k] = [v |-> v, t |-> t + StdTTL]]

\* NodeCache's periodic check: every expired key is deleted
CacheSweep(c, t) ==
    [k \in DOMAIN c |-> IF c[k] # NoEntry /\ c[k].t < t THEN NoEntry ELSE c[k]]

\* mutant of InterceptJson: the body is stored under a key that is the same
\* for every request
InterceptJsonSharedKey(c, u, status, body, t) ==
    IF Cached(u) /\ status = 200 THEN CacheSet(c, <<"income", "A">>, body, t) ELSE c

\* the res.json installed by cacheMiddleware: status-200 bodies are stored
InterceptJson(c, u, status, body, t) ==
    IF Cached(u) /\ status = 200 THEN CacheSet(c, u, body, t) ELSE c

\* what the provider's reply to the handler's fetch can be
ProviderOutcomes(u) ==
    IF u[1] = "analyze" THEN {"data", "notok", "throw"}
    ELSE {"data", "note", "lacking", "throw"}

\* mutant of HandlerStatus: the handler does not test `data.Note`
HandlerStatusIgnoresNote(u, o) ==
    CASE o = "throw" -> 500
      [] o = "notok" -> 401
      [] o = "lacking" /\ u[1] = "overview" -> 404
      [] OTHER -> 200

\* status and body the handler of u sends for the provider outcome o
HandlerStatus(u, o) ==
    CASE o = "throw" -> 500
      [] o = "note" -> 429
      [] o = "notok" -> 401
      [] o = "lacking" /\ u[1] = "overview" -> 404
      [] OTHER -> 200

HandlerBody(u, o) ==
    CASE o = "throw" -> Body(u, "error")
      [] o = "note" -> Body(u, "error")
      [] o = "notok" -> Body(u, "error")
      [] o = "lacking" /\ u[1] = "overview" -> Body(u, "error")
      [] o = "lacking" -> Body(u, "empty")
      [] OTHER -> Body(u, "data")

\* what a response carries besides its fixed message: the handler of
\* /api/analyze puts the parsed error body of a non-ok Anthropic reply in
\* `details`; every other error response is `{ error: <fixed text> }`
NoDetails == "none"
ErrorData == "errorData"

HandlerDetails(u, o) ==
    IF u[1] = "analyze" /\ o = "notok" THEN ErrorData ELSE NoDetails

\* req.body.companyData of the POSTs the model sends to /api/analyze: absent,
\* or with a beta that is null, absent or a number
Betas == { JsNull, JsUndefined, Zero, Num(12, 1, -1) }

CompanyData(md) == [t |-> "object", marketData |-> md]
MarketData(beta) == [t |-> "object", beta |-> beta]

CompanyDatas ==
    { JsUndefined } \cup { CompanyData(MarketData(b)) : b \in Betas }

riskFreeRate == Num(45, 1, -3)
marketRiskPremium == Num(8, 1, -2)

NoWacc == [emitted |-> FALSE, costOfEquity |-> JsUndefined]

\* the waccSection of the prompt: the CAPM block, or the empty string
WaccSection(companyData) ==
    IF Truthy(companyData.marketData) /\ Truthy(companyData.marketData.beta)
    THEN [ emitted |-> TRUE,
           costOfEquity |-> Add(riskFreeRate,
                                Mul(companyData.marketData.beta, marketRiskPremium)) ]
    ELSE NoWacc

NewReq ==
    [ url |-> <<"-", "-">>, pc |-> "new", status |-> 0, body |-> NoBody,
      hit |-> FALSE, ran |-> FALSE, provider |-> FALSE,
      age |-> "none", sawEntry |-> FALSE, expect |-> NoBody,
      data |-> JsUndefined, wacc |-> NoWacc, details |-> NoDetails,
      reply |-> "none" ]

NoAnswer == [body |-> NoBody, at |-> 0]

\* how old the last status-200 answer for u is at time t
AgeOf(u, t) ==
    IF answered[u] = NoAnswer THEN "none"
    ELSE IF t < answered[u].at + StdTTL THEN "fresh"
    ELSE IF t = answered[u].at + StdTTL THEN "boundary"
    ELSE "stale"

Respond(r, status, body) == [r EXCEPT !.pc = "done", !.status = status, !.body = body]

\* request number id, for url u, reaches its route: cacheMiddleware and the
\* handler up to its first await (companyData: what the body of a POST carries)
Arrive(id, u, companyData) ==
    /\ reqs[id].pc = "new"
    /\ id > 1 => reqs[id - 1].pc # "new"
    /\ LET r0 == [reqs[id] EXCEPT !.url = u,
                                  !.data = IF u[1] = "analyze" THEN companyData
                                           ELSE JsUndefined,
                                  !.age = AgeOf(u, now),
                                  !.sawEntry = Cached(u) /\ cache[u] # NoEntry,
                                  !.expect = IF Cached(u) THEN answered[u].body ELSE NoBody]
           cachedData == IF Cached(u) THEN CacheGet(cache, u, now) ELSE Miss
           c1 == IF Cached(u) THEN CacheAfterGet(cache, u, now) ELSE cache
           ran == [r0 EXCEPT !.ran = TRUE]
       IN  IF cachedData # Miss
           THEN /\ reqs' = [reqs EXCEPT ![id] = Respond([r0 EXCEPT !.hit = TRUE], 200, cachedData)]
                /\ cache' = c1
                /\ UNCHANGED answered
           ELSE IF ~KeyConfigured(u, env)
           THEN /\ reqs' = [reqs EXCEPT ![id] =
                               Respond(ran, 500, Body(u, ErrKeyNotConfigured(u)))]
                /\ cache' = InterceptJson(c1, u, 500, Body(u, ErrKeyNotConfigured(u)), now)
                /\ UNCHANGED answered
           ELSE IF u[1] = "analyze" /\ ~Truthy(companyData)
           THEN /\ reqs' = [reqs EXCEPT ![id] = Respond(ran, 400, Body(u, "error"))]
                /\ cache' = c1
                /\ UNCHANGED answered
           ELSE IF u[1] = "quote"
           THEN /\ reqs' = [reqs EXCEPT ![id] = Respond(ran, 200, Body(u, "nulls"))]
                /\ cache' = InterceptJson(c1, u, 200, Body(u, "nulls"), now)
                /\ answered' = [answered EXCEPT ![u] = [body |-> Body(u, "nulls"), at |-> now]]
           ELSE /\ reqs' = [reqs EXCEPT ![id] =
                               [ran EXCEPT !.pc = "upstream", !.provider = TRUE,
                                           !.wacc = IF u[1] = "analyze"
                                                    THEN WaccSection(companyData)
                                                    ELSE NoWacc]]
                /\ cache' = c1
                /\ UNCHANGED answered
    /\ UNCHANGED <<now, nextSweep, env>>
    /\ UNCHANGED <<call, hookVars, limiterVars, parseVars>>

\* the provider call of request id settles with o: the rest of the handler
ProviderSettle(id, o) ==
    /\ reqs[id].pc = "upstream"
    /\ o \in ProviderOutcomes(reqs[id].url)
    /\ LET u == reqs[id].url
           status == HandlerStatus(u, o)
           body == HandlerBody(u, o)
       IN  /\ reqs' = [reqs EXCEPT ![id] =
                           [Respond(reqs[id], status, body) EXCEPT
                               !.details = HandlerDetails(u, o), !.reply = o]]
           /\ cache' = InterceptJson(cache, u, status, body, now)
           /\ answered' = IF Cached(u) /\ status = 200
                          THEN [answered EXCEPT ![u] = [body |-> body, at |-> now]]
                          ELSE answered
    /\ UNCHANGED <<now, nextSweep, env>>
    /\ UNCHANGED <<call, hookVars, limiterVars, parseVars>>

\* the checkperiod timer fires
Sweep ==
    /\ now >= nextSweep
    /\ cache' = CacheSweep(cache, now)
    /\ nextSweep' = nextSweep + CheckPeriod
    /\ UNCHANGED <<now, env, reqs, answered>>
    /\ UNCHANGED <<call, hookVars, limiterVars, parseVars>>

\* time passes
Tick ==
    /\ now < nextSweep
    /\ now < MaxTicks * CheckPeriod
    /\ now' = now + CheckPeriod
    /\ UNCHANGED <<cache, nextSweep, env, reqs, answered>>
    /\ UNCHANGED <<call, hookVars, limiterVars, parseVars>>

InitServerVars ==
    /\ now = 0
    /\ cache = [u \in Urls |-> NoEntry]
    /\ nextSweep = CheckPeriod
    /\ reqs = [id \in 1..MaxRequests |-> NewReq]
    /\ answered = [u \in Urls |-> NoAnswer]

(***************************************************************************)
(* Backend: apiLimiter on /api/ and strictLimiter on POST /api/analyze     *)
(***************************************************************************)
WindowMs == 15 * 60 * 1000
ApiMax == 100
StrictMax == 10
ApiMessage == "Too many requests from this IP, please try again later."
StrictMessage == "Too many analysis requests, please try again later."

ClientIps == {"10.0.0.1"}

NoHits == [hits |-> 0, resetTime |-> 0]

\* the store's increment(key): a counter whose window has ended starts anew
Increment(store, ip, t) ==
    LET cur == IF store[ip] = NoHits \/ store[ip].resetTime <= t
               THEN [hits |-> 0, resetTime |-> t + WindowMs]
               ELSE store[ip]
    IN  [store EXCEPT ![ip] = [cur EXCEPT !.hits = cur.hits + 1]]

WindowEnded(store, ip, t) == store[ip] = NoHits \/ store[ip].resetTime <= t

\* mutant of WithinLimit: one request too many is let through
WithinLimitOffByOne(hits, max) == hits <= max + 1

\* the limiter passes the request on when its count does not exceed max
WithinLimit(hits, max) == hits <= max

\* the observer before it starts: kind says which limit it will watch
ProbeIdle(kind) == [kind |-> kind, started |-> FALSE, start |-> 0, count |-> 0]

ProbeCounts(kind, t) ==
    probe.kind = kind /\ probe.started /\ t < probe.start + WindowMs

Out(kind, status, message, handled) ==
    [kind |-> kind, status |-> status, message |-> message, handled |-> handled]

\* a request of client ip to a GET route under /api/
ApiRequest(ip) ==
    /\ apiStore[ip].hits < ApiMax + MaxOverLimit \/ WindowEnded(apiStore, ip, limNow)
    /\ LET st == Increment(apiStore, ip, limNow)
           ok == WithinLimit(st[ip].hits, ApiMax)
           fresh == WindowEnded(apiStore, ip, limNow)
           base == IF fresh THEN 0 ELSE passed.api
       IN  /\ apiStore' = st
           /\ passed' = [passed EXCEPT !.api = IF ok THEN base + 1 ELSE base]
           /\ probe' = IF ok /\ ProbeCounts("api", limNow)
                       THEN [probe EXCEPT !.count = probe.count + 1] ELSE probe
           /\ lastOut' = IF ok THEN Out("get", 200, "", TRUE)
                         ELSE Out("get", 429, ApiMessage, FALSE)
    /\ UNCHANGED <<limNow, strictStore>>
    /\ UNCHANGED <<call, hookVars, serverVars, parseVars>>

\* a request of client ip to POST /api/analyze: apiLimiter, then strictLimiter
\* (sent in the runs that watch the analyze limit)
AnalyzeRequest(ip) ==
    /\ probe.kind = "analyze"
    /\ apiStore[ip].hits < ApiMax + MaxOverLimit \/ WindowEnded(apiStore, ip, limNow)
    /\ strictStore[ip].hits < StrictMax + MaxOverLimit \/ WindowEnded(strictStore, ip, limNow)
    /\ LET st == Increment(apiStore, ip, limNow)
           ok == WithinLimit(st[ip].hits, ApiMax)
           fresh == WindowEnded(apiStore, ip, limNow)
           base == IF fresh THEN 0 ELSE passed.api
           sst == Increment(strictStore, ip, limNow)
           sok == WithinLimit(sst[ip].hits, StrictMax)
           sfresh == WindowEnded(strictStore, ip, limNow)
           sbase == IF sfresh THEN 0 ELSE passed.strict
       IN  /\ apiStore' = st
           /\ strictStore' = IF ok THEN sst ELSE strictStore
           /\ passed' = [api |-> IF ok THEN base + 1 ELSE base,
                         strict |-> IF ok THEN (IF sok THEN sbase + 1 ELSE sbase)
                                    ELSE passed.strict]
           /\ probe' = IF (ok /\ ProbeCounts("api", limNow))
                          \/ (ok /\ sok /\ ProbeCounts("analyze", limNow))
                       THEN [probe EXCEPT !.count = probe.count + 1] ELSE probe
           /\ lastOut' = IF ~ok THEN Out("analyze", 429, ApiMessage, FALSE)
                         ELSE IF ~sok THEN Out("analyze", 429, StrictMessage, FALSE)
                         ELSE Out("analyze", 200, "", TRUE)
    /\ UNCHANGED limNow
    /\ UNCHANGED <<call, hookVars, serverVars, parseVars>>

\* half a window passes
LimiterTick ==
    /\ limNow < MaxLimiterTicks * (WindowMs \div 2)
    /\ limNow' = limNow + (WindowMs \div 2)
    /\ UNCHANGED <<apiStore, strictStore, passed, probe, lastOut>>
    /\ UNCHANGED <<call, hookVars, serverVars, parseVars>>

\* the observer starts counting the handled requests of its kind
StartProbe ==
    /\ ~probe.started
    /\ probe' = [probe EXCEPT !.started = TRUE, !.start = limNow]
    /\ UNCHANGED <<limNow, apiStore, strictStore, passed, lastOut>>
    /\ UNCHANGED <<call, hookVars, serverVars, parseVars>>

InitLimiterVars ==
    /\ limNow = 0
    /\ apiStore = [ip \in ClientIps |-> NoHits]
    /\ strictStore = [ip \in ClientIps |-> NoHits]
    /\ passed = [api |-> 0, strict |-> 0]
    /\ lastOut = Out("none", 0, "", FALSE)

(***************************************************************************)
(* analyzeCompany: the financial data built from the provider's payloads   *)
(***************************************************************************)
HistoryYears == 5

Min(a, b) == IF a < b THEN a ELSE b

\* a.slice(0, Math.min(k, a.length))
Slice(a, k) == SubSeq(a, 1, Min(k, Len(a)))

\* `parseFloat(x) || null`
ParseFloatOrNull(x) == OrElse(ParseFloat(x), JsNull)

marketData(profile) ==
    [ marketCap         |-> parseFinancialNumber(profile.MarketCapitalization),
      beta              |-> ParseFloatOrNull(profile.Beta),
      trailingPE        |-> ParseFloatOrNull(profile.PERatio),
      forwardPE         |-> ParseFloatOrNull(profile.ForwardPE),
      priceToBook       |-> ParseFloatOrNull(profile.PriceToBookRatio),
      fiftyTwoWeekHigh  |-> ParseFloatOrNull(profile.Week52High),
      fiftyTwoWeekLow   |-> ParseFloatOrNull(profile.Week52Low),
      sharesOutstanding |-> parseFinancialNumber(profile.SharesOutstanding),
      enterpriseValue   |-> JsNull,
      currentPrice      |-> JsNull ]

incomeStatement(income) ==
    [ revenue           |-> parseFinancialNumber(income.totalRevenue),
      costOfRevenue     |-> parseFinancialNumber(income.costOfRevenue),
      grossProfit       |-> parseFinancialNumber(income.grossProfit),
      operatingExpenses |-> parseFinancialNumber(income.operatingExpenses),
      operatingIncome   |-> parseFinancialNumber(income.operatingIncome),
      ebitda            |-> parseFinancialNumber(income.ebitda),
      ebit              |-> parseFinancialNumber(income.ebit),
      interestExpense   |-> parseFinancialNumber(income.interestExpense),
      taxExpense        |-> parseFinancialNumber(income.incomeTaxExpense),
      netIncome         |-> parseFinancialNumber(income.netIncome),
      taxRate           |-> IF ~StrictEquals(parseFinancialNumber(income.incomeBeforeTax), Zero)
                            THEN Div(parseFinancialNumber(income.incomeTaxExpense),
                                     parseFinancialNumber(income.incomeBeforeTax))
                            ELSE Num(21, 100, 0) ]

balanceSheet(balance) ==
    [ totalAssets        |-> parseFinancialNumber(balance.totalAssets),
      currentAssets      |-> parseFinancialNumber(balance.totalCurrentAssets),
      cash               |-> parseFinancialNumber(balance.cashAndCashEquivalentsAtCarryingValue),
      accountsReceivable |-> parseFinancialNumber(balance.currentNetReceivables),
      inventory          |-> parseFinancialNumber(balance.inventory),
      ppe                |-> parseFinancialNumber(balance.propertyPlantEquipment),
      goodwill           |-> parseFinancialNumber(balance.goodwill),
      intangibleAssets   |-> parseFinancialNumber(balance.intangibleAssets),
      totalLiabilities   |-> parseFinancialNumber(balance.totalLiabilities),
      currentLiabilities |-> parseFinancialNumber(balance.totalCurrentLiabilities),
      accountsPayable    |-> parseFinancialNumber(balance.currentAccountsPayable),
      shortTermDebt      |-> parseFinancialNumber(balance.shortTermDebt),
      longTermDebt       |-> Sub(parseFinancialNumber(balance.shortLongTermDebtTotal),
                                 parseFinancialNumber(balance.shortTermDebt)),
      totalEquity        |-> parseFinancialNumber(balance.totalShareholderEquity) ]

cashFlowOf(cashFlow) ==
    [ operatingCashFlow   |-> parseFinancialNumber(cashFlow.operatingCashflow),
      capitalExpenditures |-> MathAbs(parseFinancialNumber(cashFlow.capitalExpenditures)),
      freeCashFlow        |-> Sub(parseFinancialNumber(cashFlow.operatingCashflow),
                                  MathAbs(parseFinancialNumber(cashFlow.capitalExpenditures))) ]

historicalIncomeEntry(yr) ==
    [ fiscalYear      |-> yr.fiscalDateEnding,
      revenue         |-> parseFinancialNumber(yr.totalRevenue),
      operatingIncome |-> parseFinancialNumber(yr.operatingIncome),
      ebit            |-> parseFinancialNumber(yr.ebit),
      netIncome       |-> parseFinancialNumber(yr.netIncome),
      grossMargin     |-> Div(parseFinancialNumber(yr.grossProfit),
                              parseFinancialNumber(yr.totalRevenue)) ]

historicalBalanceEntry(yr) ==
    [ fiscalYear  |-> yr.fiscalDateEnding,
      totalAssets |-> parseFinancialNumber(yr.totalAssets),
      totalEquity |-> parseFinancialNumber(yr.totalShareholderEquity),
      totalDebt   |-> parseFinancialNumber(yr.shortLongTermDebtTotal),
      ppe         |-> parseFinancialNumber(yr.propertyPlantEquipment) ]

historicalCashFlowEntry(yr) ==
    [ fiscalYear        |-> yr.fiscalDateEnding,
      operatingCashFlow |-> parseFinancialNumber(yr.operatingCashflow),
      capex             |-> MathAbs(parseFinancialNumber(yr.capitalExpenditures)),
      freeCashFlow      |-> Sub(parseFinancialNumber(yr.operatingCashflow),
                                MathAbs(parseFinancialNumber(yr.capitalExpenditures))) ]

\* the historicalData object of the three sliced histories
historicalDataOf(historicalIncome, historicalBalance, historicalCashFlow) ==
    [ yearsAvailable   |-> Len(historicalIncome),
      incomeStatements |-> [i \in 1..Len(historicalIncome) |-> historicalIncomeEntry(historicalIncome[i])],
      balanceSheets    |-> [i \in 1..Len(historicalBalance) |-> historicalBalanceEntry(historicalBalance[i])],
      cashFlows        |-> [i \in 1..Len(historicalCashFlow) |-> historicalCashFlowEntry(historicalCashFlow[i])] ]

historicalData(incomeData, balanceData, cashFlowData) ==
    historicalDataOf(Slice(incomeData, HistoryYears), Slice(balanceData, HistoryYears),
                     Slice(cashFlowData, HistoryYears))

\* the object analyzeCompany posts as companyData; p holds the parsed bodies
\* of the four required requests, none of them empty
FinancialData(tk, p, earnings) ==
    LET profile == p.profile[1]
        income == p.income[1]
        balance == p.balance[1]
        cashFlow == p.cashflow[1]
    IN  [ built           |-> TRUE,
          companyName     |-> profile.Name,
          ticker          |-> tk,
          industry        |-> OrElse(profile.Industry, profile.Sector),
          description     |-> profile.Description,
          fiscalPeriod    |-> income.fiscalDateEnding,
          currency        |-> OrElse(profile.Currency, Str(<<"U", "S", "D">>)),
          marketData      |-> marketData(profile),
          earningsData    |-> IF earnings = "null" THEN "null" ELSE "sliced",
          incomeStatement |-> incomeStatement(income),
          balanceSheet    |-> balanceSheet(balance),
          cashFlow        |-> cashFlowOf(cashFlow),
          historicalData  |-> historicalData(p.income, p.balance, p.cashflow) ]

\* before the run has built its financial data
NotBuilt == [built |-> FALSE]

(***************************************************************************)
(* The provider payloads the model draws from                              *)
(***************************************************************************)
\* what the provider can send for a statement field: nothing, the "None"
\* sentinel, or a number as text
StatementValues ==
    { JsUndefined, Str(NoneWord), Str(<<"0">>), Str(<<"2", "5", "0">>),
      Str(<<"-", "4", "0">>), Str(<<"1", "e", "9", "9", "9">>) }

\* what the provider can send for a market field
MarketValues ==
    { JsUndefined, Str(NoneWord), Str(<<"0">>), Str(<<"1", ".", "2">>) }

Orders == {"descending", "ascending", "mixed"}

LatestYear == 2024

\* the fiscal years of an n-year history, in the order the provider sends them
YearsOf(n, order) ==
    [i \in 1..n |->
        CASE order = "descending" -> LatestYear + 1 - i
          [] order = "ascending" -> LatestYear - n + i
          [] OTHER -> IF n >= 2 /\ i = 1 THEN LatestYear - 1
                      ELSE IF n >= 2 /\ i = 2 THEN LatestYear
                      ELSE LatestYear + 1 - i ]

ProfileRecord(betaV, mktV) ==
    [ Name |-> Str(<<"N">>), Industry |-> JsUndefined, Sector |-> Str(<<"S">>),
      Description |-> Str(<<"D">>), Currency |-> JsUndefined,
      MarketCapitalization |-> mktV, Beta |-> betaV, PERatio |-> mktV,
      ForwardPE |-> mktV, PriceToBookRatio |-> mktV, Week52High |-> mktV,
      Week52Low |-> mktV, SharesOutstanding |-> mktV ]

IncomeRecord(year, numV, denV) ==
    [ fiscalDateEnding |-> year, totalRevenue |-> denV, costOfRevenue |-> numV,
      grossProfit |-> numV, operatingExpenses |-> numV, operatingIncome |-> numV,
      ebitda |-> numV, ebit |-> numV, interestExpense |-> numV,
      incomeTaxExpense |-> numV, incomeBeforeTax |-> denV, netIncome |-> numV ]

BalanceRecord(year, numV, denV) ==
    [ fiscalDateEnding |-> year, totalAssets |-> denV, totalCurrentAssets |-> numV,
      cashAndCashEquivalentsAtCarryingValue |-> numV, currentNetReceivables |-> numV,
      inventory |-> numV, propertyPlantEquipment |-> numV, goodwill |-> numV,
      intangibleAssets |-> numV, totalLiabilities |-> denV,
      totalCurrentLiabilities |-> numV, currentAccountsPayable |-> numV,
      shortTermDebt |-> numV, shortLongTermDebtTotal |-> denV,
      totalShareholderEquity |-> denV ]

CashFlowRecord(year, numV, denV) ==
    [ fiscalDateEnding |-> year, operatingCashflow |-> denV,
      capitalExpenditures |-> numV ]

\* the bodies of the four required requests for an n-year history
PayloadOf(n, order, numV, denV, betaV, mktV) ==
    LET years == YearsOf(n, order) IN
    [ profile  |-> << ProfileRecord(betaV, mktV) >>,
      income   |-> [i \in 1..n |-> IncomeRecord(years[i], numV, denV)],
      balance  |-> [i \in 1..n |-> BalanceRecord(years[i], numV, denV)],
      cashflow |-> [i \in 1..n |-> CashFlowRecord(years[i], numV, denV)] ]

\* bodies whose three statement histories have ni, nb and nc years
PayloadOfLengths(ni, nb, nc) ==
    [ profile  |-> << ProfileRecord(Str(<<"1", ".", "2">>), Str(<<"1", ".", "2">>)) >>,
      income   |-> [i \in 1..ni |->
                      IncomeRecord(LatestYear + 1 - i, Str(<<"2", "5", "0">>), Str(<<"2", "5", "0">>))],
      balance  |-> [i \in 1..nb |->
                      BalanceRecord(LatestYear + 1 - i, Str(<<"2", "5", "0">>), Str(<<"2", "5", "0">>))],
      cashflow |-> [i \in 1..nc |->
                      CashFlowRecord(LatestYear + 1 - i, Str(<<"2", "5", "0">>), Str(<<"2", "5", "0">>))] ]

Payloads ==
    { PayloadOf(n, order, numV, denV, betaV, mktV) :
        n \in 1..MaxYears, order \in Orders,
        numV \in StatementValues, denV \in StatementValues,
        betaV \in MarketValues, mktV \in MarketValues }
    \cup { PayloadOfLengths(ni, nb, nc) : ni \in 1..MaxYears, nb \in 1..MaxYears,
                                         nc \in 1..MaxYears }

\* the payload of the runs whose data is not under study
SamplePayload ==
    PayloadOf(1, "descending", Str(<<"2", "5", "0">>), Str(<<"2", "5", "0">>),
              Str(<<"1", ".", "2">>), Str(<<"1", ".", "2">>))

(***************************************************************************)
(* SpecParse: one parseFinancialNumber(value) call on an arbitrary value   *)
(***************************************************************************)
ParseAlphabet == {" ", "-", "0", "1", "9", ".", "e", "x"}

StringsUpTo(k) == UNION { [1..m -> ParseAlphabet] : m \in 0..k }

ParseInputs ==
    { Str(s) : s \in StringsUpTo(MaxStrLen) }
    \cup { Str(NoneWord), Str(InfinityWord), Str(<<"-">> \o InfinityWord),
           JsNull, JsUndefined, JsObject,
           Arr(<< >>), Arr(<<Str(<<"9">>)>>), Arr(<<JsNull, Str(<<"9">>)>>),
           Zero, Whole(5), Num(-12345, 100, 0), Num(123, 1, 4), NaN, Infinity,
           NegInfinity }

NotCalled == [t |-> "pending"]

ParseFinancialNumberCall ==
    /\ ret = NotCalled
    /\ ret' = parseFinancialNumber(arg)
    /\ UNCHANGED <<arg, call, hookVars, serverVars, limiterVars>>

InitParseVars ==
    /\ arg = JsUndefined
    /\ ret = NotCalled

(***************************************************************************)
(* SpecBuild: analyzeCompany resumed with six ok responses, on arbitrary   *)
(* payloads                                                                *)
(***************************************************************************)
BuildFinancialData(tk, earnings) ==
    /\ financialData = NotBuilt
    /\ financialData' = FinancialData(tk, payload, earnings)
    /\ UNCHANGED <<call, companyInput, backendConnected, isAnalyzing, analysis, error,
                   phase, ticker, tasks, yahooData, earningsData, flaky, payload,
                   serverVars, limiterVars, parseVars, other, paywallVars>>

(***************************************************************************)
(* SpecRetry: one fetchWithRetry(url, options, maxRetries) call against an *)
(* arbitrary server                                                        *)
(***************************************************************************)
RetryCall(m) ==
    /\ call.pc = "idle"
    /\ call' = NewCall(m)
    /\ UNCHANGED <<hookVars, serverVars, limiterVars, parseVars>>

RetrySettle(o) ==
    /\ call.pc = "fetching"
    /\ call' = OnSettle(call, o)
    /\ UNCHANGED <<hookVars, serverVars, limiterVars, parseVars>>

RetryTimer ==
    /\ call.pc = "backoff"
    /\ call' = OnTimer(call)
    /\ UNCHANGED <<hookVars, serverVars, limiterVars, parseVars>>

Required == {"profile", "income", "balance", "cashflow"}
Optional == {"quote", "earnings"}
Gathered == Required \cup Optional
TaskNames == {"search", "analyze"} \cup Gathered

InitHook ==
    /\ companyInput = << >>
    /\ backendConnected = FALSE
    /\ isAnalyzing = FALSE
    /\ analysis = "null"
    /\ error = "null"
    /\ phase = "idle"
    /\ ticker = << >>
    /\ tasks = [t \in TaskNames |-> IdleCall]
    /\ yahooData = "unset"
    /\ earningsData = "unset"
    /\ flaky = "none"
    /\ financialData = NotBuilt
    /\ other = "idle"
    /\ isPaid = FALSE
    /\ analysisCount = 0
    /\ showPaywall = FALSE
    /\ localStorage = [paid |-> FALSE, count |-> 0]
    /\ freeAnalyses = 0

InitRetry ==
    /\ call = IdleCall
    /\ InitHook
    /\ payload = SamplePayload
    /\ InitParseVars
    /\ InitServerVars
    /\ InitLimiterVars
    /\ probe = ProbeIdle("api")
    /\ env = [alpha |-> TRUE, anthropic |-> TRUE]

(***************************************************************************)
(* useCompanyAnalysis: analyzeCompany                                      *)
(***************************************************************************)
ErrEmptyInput == "Please enter a company name or ticker symbol"
ErrNotConnected == "Backend server not connected. Please check your connection."
ErrTypeError == "TypeError"

\* the message thrown when the response of a required request is not ok
FailedToFetch(t) ==
    CASE t = "profile"  -> "Failed to fetch company profile."
      [] t = "income"   -> "Failed to fetch income statement"
      [] t = "balance"  -> "Failed to fetch balance sheet"
      [] t = "cashflow" -> "Failed to fetch cash flow statement"

\* the message thrown when the payload of a required request is empty
NoDataFor(t) ==
    CASE t = "profile"  -> "No data found for ticker"
      [] t = "income"   -> "No income statement data available"
      [] t = "balance"  -> "No balance sheet data available"
      [] t = "cashflow" -> "No cash flow data available"

ErrAnalysisFailed == "Failed to analyze company"
ErrParse == "Could not parse analysis results. Please try again."

\* the texts a user can type into the input: nothing, a blank, a ticker
\* symbol, a company name
CompanyInputs == { << >>, <<" ">>, <<"A">>, <<"a", " ", "b">> }

Reverse(s) == [i \in 1..Len(s) |-> s[Len(s) + 1 - i]]

\* t without its trailing characters that are in set
TrimEnd(t, set) == Reverse(Drop(Reverse(t), Span(Reverse(t), set)))

\* s.trim()
Trim(s) == TrimEnd(Drop(s, Span(s, WhiteSpace)), WhiteSpace)

UpperOf(c) == CASE c = "a" -> "A" [] c = "b" -> "B" [] OTHER -> c

\* s.toUpperCase()
ToUpperCase(s) == [i \in 1..Len(s) |-> UpperOf(s[i])]

\* s.includes(c)
Includes(s, c) == \E i \in 1..Len(s) : s[i] = c

\* mutant of PreconditionError: the input is tested without trim()
PreconditionErrorNoTrim(input, connected) ==
    IF input = << >> THEN ErrEmptyInput
    ELSE IF ~connected THEN ErrNotConnected
    ELSE "null"

\* the two early returns of analyzeCompany: the message set, "null" if none
PreconditionError(input, connected) ==
    IF Trim(input) = << >> THEN ErrEmptyInput
    ELSE IF ~connected THEN ErrNotConnected
    ELSE "null"

\* `companyInput.includes(' ') || companyInput !== companyInput.toUpperCase()`
NeedsSearch(input) == Includes(input, " ") \/ input # ToUpperCase(input)

\* the text of the `analysis` field of a status-200 body of /api/analyze, as
\* a sequence of tokens: "fence" is a code-fence marker (three backquotes),
\* "json" the word after it, "{}" the text of a JSON object, "x" other text
AnalysisTextOf(body) ==
    CASE body = "data" -> <<"{}">>
      [] body = "fenced" -> <<"fence", "json", "\n", "{}", "\n", "fence">>
      [] body = "fencedplain" -> <<"fence", "\n", "{}", "fence", "\n">>
      [] body = "nulltext" -> <<"null">>
      [] OTHER -> <<"x", "{}">>

TextWhiteSpace == {" ", "\n"}

\* mutant of StripJsonFence: the fence markers with `json` are left in the text
StripJsonFenceKept(s) == s

\* the `\n?` of the two patterns: r without the newline it may start with
SkipNewline(r) == IF r # << >> /\ Head(r) = "\n" THEN Tail(r) ELSE r

\* text.replace(/```json\n?/g, "")
RECURSIVE StripJsonFence(_)
StripJsonFence(s) ==
    IF s = << >> THEN << >>
    ELSE IF StartsWith(s, <<"fence", "json">>)
    THEN StripJsonFence(SkipNewline(Drop(s, 2)))
    ELSE <<Head(s)>> \o StripJsonFence(Tail(s))

\* text.replace(/```\n?/g, "")
RECURSIVE StripFence(_)
StripFence(s) ==
    IF s = << >> THEN << >>
    ELSE IF Head(s) = "fence"
    THEN StripFence(SkipNewline(Tail(s)))
    ELSE <<Head(s)>> \o StripFence(Tail(s))

\* .trim() of a text
TrimText(s) == TrimEnd(Drop(s, Span(s, TextWhiteSpace)), TextWhiteSpace)

\* JSON.parse(text): the value when the text, white space apart, is one JSON
\* value, a SyntaxError otherwise
JsonValueOf(toks) ==
    IF Len(toks) = 1 /\ toks[1] = "{}" THEN [ok |-> TRUE, value |-> "parsed"]
    ELSE IF Len(toks) = 1 /\ toks[1] = "null" THEN [ok |-> TRUE, value |-> "null"]
    ELSE [ok |-> FALSE, value |-> "null"]

JsonParse(s) == JsonValueOf(SelectSeq(s, LAMBDA c : c \notin TextWhiteSpace))

\* strip the fences, trim, parse
ParseAnalysis(text) == JsonParse(TrimText(StripFence(StripJsonFence(text))))

\* the order in which analyzeCompany validates the required requests
RequiredOrder == <<"profile", "income", "balance", "cashflow">>

\* first required request, in validation order, that is in bad; 0 if none
RECURSIVE FirstBad(_, _)
FirstBad(bad, k) ==
    IF k > Len(RequiredOrder) THEN 0
    ELSE IF RequiredOrder[k] \in bad THEN k
    ELSE FirstBad(bad, k + 1)

NotOk(c) == ~Ok(c.result)

\* mutant of EmptyPayload: the parsed body is not tested for emptiness
EmptyPayloadUnchecked(c) == FALSE

\* `!data || data.length === 0`
EmptyPayload(c) == c.result.body = "empty"

\* what the fetch of request t can settle with
OutcomesFor(t) ==
    IF t = "analyze"
    THEN { Response(200, "data"), Response(200, "fenced"), Response(200, "fencedplain"),
           Response(200, "nulltext"), Response(200, "garbage"), Response(200, "empty"),
           Response(500, "err"), Response(429, "err"), Rejection }
    ELSE IF t \in Optional
    THEN { Response(200, "data"), Response(500, "err"), Response(429, "err"), Rejection }
    ELSE { Response(200, "data"), Response(200, "empty"),
           Response(500, "err"), Response(429, "err"), Rejection }

\* the run has ended, none of its fetches failed transiently and none is
\* still in flight: the states in which the model lets the user act again
AfterRun ==
    /\ phase = "done"
    /\ flaky = "none"
    /\ \A t \in TaskNames : tasks[t].pc \notin {"fetching", "backoff"}

\* the user edits the input (between runs, once the network is quiet)
SetCompanyInput(k) ==
    /\ phase = "idle" \/ AfterRun
    /\ companyInput # k
    /\ companyInput' = k
    /\ UNCHANGED <<call, backendConnected, isAnalyzing, analysis, error, phase,
                   ticker, tasks, yahooData, earningsData, flaky, payload, financialData,
                   serverVars, limiterVars, parseVars, other, paywallVars>>

\* the /health probe settles: setBackendConnected(response.ok), or false on a throw
CheckBackendConnection(ok) ==
    /\ phase = "idle" \/ AfterRun
    /\ backendConnected # ok
    /\ backendConnected' = ok
    /\ UNCHANGED <<call, companyInput, isAnalyzing, analysis, error, phase,
                   ticker, tasks, yahooData, earningsData, flaky, payload, financialData,
                   serverVars, limiterVars, parseVars, other, paywallVars>>

StartGather(ts) ==
    [t \in TaskNames |-> IF t \in Gathered THEN NewCall(DefaultMaxRetries) ELSE ts[t]]

\* analyzeCompany() up to its first await; f is the request of this run that
\* the environment may fail transiently, "none" if it fails none.  The model
\* follows one run that passes the two early returns, and any calls that do
\* not, before it and after it
AnalyzeCompany(f) ==
    LET early == PreconditionError(companyInput, backendConnected) IN
    /\ phase = "idle" \/ (AfterRun /\ early # "null")
    /\ flaky' = IF early # "null" THEN flaky ELSE f
    /\ IF early # "null"
       THEN /\ error' = early
            /\ UNCHANGED <<isAnalyzing, analysis, phase, ticker, tasks>>
       ELSE /\ isAnalyzing' = TRUE
            /\ error' = "null"
            /\ analysis' = "null"
            /\ ticker' = ToUpperCase(Trim(companyInput))
            /\ IF NeedsSearch(companyInput)
               THEN /\ tasks' = [tasks EXCEPT !["search"] = NewCall(DefaultMaxRetries)]
                    /\ phase' = "search"
               ELSE /\ tasks' = StartGather(tasks)
                    /\ phase' = "gather"
    /\ UNCHANGED <<call, companyInput, backendConnected, yahooData, earningsData,
                   payload, financialData, serverVars, limiterVars, parseVars, other, paywallVars>>

\* catch (err) { setError(err.message) } finally { setIsAnalyzing(false) }
Fail(ts, msg) ==
    /\ tasks' = ts
    /\ error' = msg
    /\ isAnalyzing' = FALSE
    /\ phase' = "done"
    /\ UNCHANGED <<analysis, ticker, financialData>>

\* the symbol of the first match the search returns
SearchSymbol == <<"S", "Y", "M">>

\* the lookup failed: the call threw, the response is not ok, or no match
SearchFailed(c) ==
    ~(c.pc = "returned" /\ Ok(c.result) /\ c.result.body = "data")

ErrSearchFailed == "Failed to search for company. Please try again."

\* mutant of AfterSearch: the error thrown for a failed lookup is not caught
AfterSearchAborts(ts) ==
    IF SearchFailed(ts["search"])
    THEN Fail(ts, ErrSearchFailed) /\ UNCHANGED <<yahooData, earningsData>>
    ELSE /\ ticker' = SearchSymbol
         /\ tasks' = StartGather(ts)
         /\ phase' = "gather"
         /\ UNCHANGED <<isAnalyzing, analysis, error, yahooData, earningsData, financialData>>

\* the search call settled: its failures are caught and logged, then the six
\* requests of the Promise.all are issued
AfterSearch(ts) ==
    /\ ticker' = IF SearchFailed(ts["search"]) THEN ticker ELSE SearchSymbol
    /\ tasks' = StartGather(ts)
    /\ phase' = "gather"
    /\ UNCHANGED <<isAnalyzing, analysis, error, yahooData, earningsData, financialData>>

\* the first Promise.all fulfilled: validation, parsing, and the POST to /api/analyze
AfterGather(ts) ==
    LET notOk == FirstBad({r \in Required : NotOk(ts[r])}, 1)
        empty == FirstBad({r \in Required : EmptyPayload(ts[r])}, 1)
        yahoo == IF Ok(ts["quote"].result) THEN ts["quote"].result.body ELSE "null"
        earnings == IF Ok(ts["earnings"].result) THEN ts["earnings"].result.body ELSE "null"
    IN  IF notOk # 0
        THEN /\ Fail(ts, FailedToFetch(RequiredOrder[notOk]))
             /\ UNCHANGED <<yahooData, earningsData>>
        ELSE /\ yahooData' = yahoo
             /\ earningsData' = earnings
             /\ IF empty # 0
                THEN Fail(ts, NoDataFor(RequiredOrder[empty]))
                ELSE /\ financialData' = FinancialData(ticker, payload, earnings)
                     /\ tasks' = [ts EXCEPT !["analyze"] = NewCall(DefaultMaxRetries)]
                     /\ phase' = "analyze"
                     /\ UNCHANGED <<isAnalyzing, analysis, error, ticker>>

\* the /api/analyze call settled
AfterAnalyze(ts) ==
    LET c == ts["analyze"] IN
    /\ UNCHANGED <<yahooData, earningsData>>
    /\ IF c.pc = "thrown" THEN Fail(ts, c.thrown)
       ELSE IF ~Ok(c.result) THEN Fail(ts, ErrAnalysisFailed)
       ELSE IF c.result.body = "empty" THEN Fail(ts, ErrTypeError)
       ELSE IF ~ParseAnalysis(AnalysisTextOf(c.result.body)).ok THEN Fail(ts, ErrParse)
       ELSE /\ tasks' = ts
            /\ analysis' = ParseAnalysis(AnalysisTextOf(c.result.body)).value
            /\ isAnalyzing' = FALSE
            /\ phase' = "done"
            /\ UNCHANGED <<error, ticker, financialData>>

\* mutant of JoinRejects: the join waits until every call has settled
JoinRejectsWhenAllSettled(ts, c) ==
    c.pc = "thrown" /\ \A g \in Gathered : Settled(ts[g])

\* Promise.all rejects as soon as one of its promises rejects
JoinRejects(ts, c) == c.pc = "thrown"

\* request t's call moved to state c: run whatever of analyzeCompany it resumes
Resume(t, c) ==
    LET ts == [tasks EXCEPT ![t] = c] IN
    IF phase = "search" /\ t = "search" /\ Settled(c)
    THEN AfterSearch(ts)
    ELSE IF phase = "gather" /\ t \in Gathered /\ JoinRejects(ts, c)
    THEN Fail(ts, c.thrown) /\ UNCHANGED <<yahooData, earningsData>>
    ELSE IF phase = "gather" /\ t \in Gathered
              /\ \A g \in Gathered : ts[g].pc = "returned"
    THEN AfterGather(ts)
    ELSE IF phase = "analyze" /\ t = "analyze" /\ Settled(c)
    THEN AfterAnalyze(ts)
    ELSE /\ tasks' = ts
         /\ UNCHANGED <<isAnalyzing, analysis, error, phase, ticker,
                        yahooData, earningsData, financialData>>

\* a fetch of the run settles: what analyzeCompany does then, in the hook
\* and in the component alike
SettleStep(t, o) ==
    /\ tasks[t].pc = "fetching"
    /\ IsTransient(o) => t = flaky
    /\ Resume(t, OnSettle(tasks[t], o))
    /\ UNCHANGED <<call, companyInput, backendConnected, flaky, payload,
                   serverVars, limiterVars, parseVars>>

\* a backoff timer of the run fires
TimerStep(t) ==
    /\ tasks[t].pc = "backoff"
    /\ Resume(t, OnTimer(tasks[t]))
    /\ UNCHANGED <<call, companyInput, backendConnected, flaky, payload,
                   serverVars, limiterVars, parseVars>>

\* a fetch of the hook's run settles
TaskSettle(t, o) == SettleStep(t, o) /\ UNCHANGED <<other, paywallVars>>

\* a backoff timer of the hook's run fires
TaskTimer(t) == TimerStep(t) /\ UNCHANGED <<other, paywallVars>>

InitAnalyze ==
    /\ call = IdleCall
    /\ InitHook
    /\ payload = SamplePayload
    /\ InitParseVars
    /\ InitServerVars
    /\ InitLimiterVars
    /\ probe = ProbeIdle("api")
    /\ env = [alpha |-> TRUE, anthropic |-> TRUE]

NextAnalyze ==
    \/ \E k \in CompanyInputs : SetCompanyInput(k)
    \/ \E ok \in BOOLEAN : CheckBackendConnection(ok)
    \/ \E f \in TaskNames \cup {"none"} : AnalyzeCompany(f)
    \/ \E t \in TaskNames : \E o \in OutcomesFor(t) : TaskSettle(t, o)
    \/ \E t \in TaskNames : TaskTimer(t)

SpecAnalyze == InitAnalyze /\ [][NextAnalyze]_vars

(***************************************************************************)
(* SpecOverlap: analyzeCompany is called again while a run is in flight.   *)
(* The second call is followed by what it does to the hook's state: its    *)
(* start, and its end in the try, the catch and the finally                *)
(***************************************************************************)
RunInFlight == phase \in {"search", "gather", "analyze"}

\* what the second call can end with: setAnalysis, or setError of a message
OtherEnds == {"analysis", ErrAnalysisFailed, NetworkError}

\* analyzeCompany() up to its first await, called during a run
StartOther ==
    /\ other = "idle"
    /\ RunInFlight
    /\ PreconditionError(companyInput, backendConnected) = "null"
    /\ other' = "running"
    /\ isAnalyzing' = TRUE
    /\ error' = "null"
    /\ analysis' = "null"
    /\ UNCHANGED <<call, companyInput, backendConnected, phase, ticker, tasks, yahooData,
                   earningsData, flaky, payload, financialData, paywallVars,
                   serverVars, limiterVars, parseVars>>

\* the second call ends: setAnalysis or setError, then setIsAnalyzing(false)
FinishOther(e) ==
    /\ other = "running"
    /\ other' = "finished"
    /\ IF e = "analysis"
       THEN analysis' = "parsed" /\ UNCHANGED error
       ELSE error' = e /\ UNCHANGED analysis
    /\ isAnalyzing' = FALSE
    /\ UNCHANGED <<call, companyInput, backendConnected, phase, ticker, tasks, yahooData,
                   earningsData, flaky, payload, financialData, paywallVars,
                   serverVars, limiterVars, parseVars>>

InitOverlap == InitAnalyze

NextOverlap ==
    \/ \E k \in CompanyInputs : SetCompanyInput(k)
    \/ \E ok \in BOOLEAN : CheckBackendConnection(ok)
    \/ \E f \in {"analyze", "none"} : AnalyzeCompany(f)
    \/ \E t \in TaskNames : \E o \in OutcomesFor(t) : TaskSettle(t, o)
    \/ \E t \in TaskNames : TaskTimer(t)
    \/ StartOther
    \/ \E e \in OtherEnds : FinishOther(e)

SpecOverlap == InitOverlap /\ [][NextOverlap]_vars

(***************************************************************************)
(* SpecPaywall: analyzeCompany of the page component, which counts the     *)
(* analyses and shows the paywall; its runs follow one another             *)
(***************************************************************************)
\* mutant of PaywallBlocks: the free analysis is counted off by one
PaywallBlocksOffByOne(paid, count) == ~paid /\ count > 1

\* `if (!isPaid && analysisCount >= 1)`
PaywallBlocks(paid, count) == ~paid /\ count >= 1

\* analyzeCompany() of the component up to its first await.  The button and
\* the Enter key call it only while isAnalyzing is false
ComponentAnalyze(f) ==
    /\ ~isAnalyzing
    /\ phase \in {"idle", "done"}
    /\ analysisCount < MaxAnalyses
    /\ IF PreconditionError(companyInput, backendConnected) # "null"
       THEN /\ error' = PreconditionError(companyInput, backendConnected)
            /\ UNCHANGED <<isAnalyzing, analysis, phase, ticker, tasks, flaky,
                           yahooData, earningsData, financialData, showPaywall>>
       ELSE IF PaywallBlocks(isPaid, analysisCount)
       THEN /\ showPaywall' = TRUE
            /\ UNCHANGED <<isAnalyzing, analysis, error, phase, ticker, tasks, flaky,
                           yahooData, earningsData, financialData>>
       ELSE /\ isAnalyzing' = TRUE
            /\ error' = "null"
            /\ analysis' = "null"
            /\ ticker' = ToUpperCase(Trim(companyInput))
            /\ flaky' = f
            /\ yahooData' = "unset"
            /\ earningsData' = "unset"
            /\ financialData' = NotBuilt
            /\ IF NeedsSearch(companyInput)
               THEN /\ tasks' = [t \in TaskNames |->
                                   IF t = "search" THEN NewCall(DefaultMaxRetries)
                                   ELSE IdleCall]
                    /\ phase' = "search"
               ELSE /\ tasks' = StartGather([t \in TaskNames |-> IdleCall])
                    /\ phase' = "gather"
            /\ UNCHANGED showPaywall
    /\ UNCHANGED <<call, companyInput, backendConnected, payload, other,
                   isPaid, analysisCount, localStorage, freeAnalyses,
                   serverVars, limiterVars, parseVars>>

\* the run ends in this step with setAnalysis: the try block ran through
RunSucceeds == phase = "analyze" /\ phase' = "done" /\ error' = "null"

\* `const newCount = analysisCount + 1; setAnalysisCount(newCount);
\*  localStorage.setItem('mauboussin_analysis_count', newCount.toString())`
CountAnalysis ==
    IF RunSucceeds
    THEN /\ analysisCount' = analysisCount + 1
         /\ localStorage' = [localStorage EXCEPT !.count = analysisCount + 1]
         /\ freeAnalyses' = IF isPaid THEN freeAnalyses ELSE freeAnalyses + 1
         /\ UNCHANGED <<isPaid, showPaywall>>
    ELSE UNCHANGED paywallVars

\* a fetch of the component's run settles
ComponentSettle(t, o) == SettleStep(t, o) /\ CountAnalysis /\ UNCHANGED other

\* the page is loaded again: the state is initial and initializePaymentStatus
\* reads localStorage; paymentSuccess: the URL carries payment=success
Reload(paymentSuccess) ==
    /\ companyInput' = << >>
    /\ backendConnected' = FALSE
    /\ isAnalyzing' = FALSE
    /\ analysis' = "null"
    /\ error' = "null"
    /\ phase' = "idle"
    /\ ticker' = << >>
    /\ tasks' = [t \in TaskNames |-> IdleCall]
    /\ yahooData' = "unset"
    /\ earningsData' = "unset"
    /\ flaky' = "none"
    /\ financialData' = NotBuilt
    /\ isPaid' = (localStorage.paid \/ paymentSuccess)
    /\ analysisCount' = localStorage.count
    /\ showPaywall' = FALSE
    /\ localStorage' = [localStorage EXCEPT !.paid = localStorage.paid \/ paymentSuccess]
    /\ UNCHANGED <<call, payload, other, freeAnalyses, serverVars, limiterVars, parseVars>>

\* `onClick={() => setShowPaywall(false)}`
ClosePaywall ==
    /\ showPaywall
    /\ showPaywall' = FALSE
    /\ UNCHANGED <<call, companyInput, backendConnected, isAnalyzing, analysis, error,
                   phase, ticker, tasks, yahooData, earningsData, flaky, payload,
                   financialData, other, isPaid, analysisCount, localStorage,
                   freeAnalyses, serverVars, limiterVars, parseVars>>

InitPaywall == InitAnalyze

NextPaywall ==
    \/ \E k \in CompanyInputs : SetCompanyInput(k)
    \/ \E ok \in BOOLEAN : CheckBackendConnection(ok)
    \/ \E f \in {"analyze", "none"} : ComponentAnalyze(f)
    \/ \E t \in TaskNames : \E o \in OutcomesFor(t) : ComponentSettle(t, o)
    \/ \E t \in TaskNames : TaskTimer(t)
    \/ \E paymentSuccess \in BOOLEAN : Reload(paymentSuccess)
    \/ ClosePaywall

SpecPaywall == InitPaywall /\ [][NextPaywall]_vars

InitServer ==
    /\ call = IdleCall
    /\ InitHook
    /\ payload = SamplePayload
    /\ InitParseVars
    /\ InitServerVars
    /\ InitLimiterVars
    /\ probe = ProbeIdle("api")
    /\ env \in [alpha : BOOLEAN, anthropic : BOOLEAN]

NextServer ==
    \/ \E id \in 1..MaxRequests : \E u \in Urls : \E companyData \in CompanyDatas :
          Arrive(id, u, companyData)
    \/ \E id \in 1..MaxRequests : \E o \in {"data", "note", "lacking", "notok", "throw"} :
          ProviderSettle(id, o)
    \/ Sweep
    \/ Tick

SpecServer == InitServer /\ [][NextServer]_vars

InitLimiter ==
    /\ call = IdleCall
    /\ InitHook
    /\ payload = SamplePayload
    /\ InitParseVars
    /\ InitServerVars
    /\ InitLimiterVars
    /\ probe \in {ProbeIdle("api"), ProbeIdle("analyze")}
    /\ env = [alpha |-> TRUE, anthropic |-> TRUE]

NextLimiter ==
    \/ \E ip \in ClientIps : ApiRequest(ip)
    \/ \E ip \in ClientIps : AnalyzeRequest(ip)
    \/ LimiterTick
    \/ StartProbe

SpecLimiter == InitLimiter /\ [][NextLimiter]_vars

NextRetry ==
    \/ \E m \in 1..MaxRetriesBound : RetryCall(m)
    \/ \E o \in Outcomes : RetrySettle(o)
    \/ RetryTimer

SpecRetry == InitRetry /\ [][NextRetry]_vars

\* the call under the scheduling the code has: a backoff timer that is set
\* fires; nothing makes a pending fetch settle, since fetch is called with
\* the caller's options and no AbortSignal or timer is attached to it
SpecRetryFair == SpecRetry /\ WF_vars(RetryTimer)

InitParse ==
    /\ call = IdleCall
    /\ InitHook
    /\ payload = SamplePayload
    /\ arg \in ParseInputs
    /\ ret = NotCalled
    /\ InitServerVars
    /\ InitLimiterVars
    /\ probe = ProbeIdle("api")
    /\ env = [alpha |-> TRUE, anthropic |-> TRUE]

NextParse == ParseFinancialNumberCall

SpecParse == InitParse /\ [][NextParse]_vars

InitBuild ==
    /\ call = IdleCall
    /\ InitHook
    /\ payload \in Payloads
    /\ InitParseVars
    /\ InitServerVars
    /\ InitLimiterVars
    /\ probe = ProbeIdle("api")
    /\ env = [alpha |-> TRUE, anthropic |-> TRUE]

NextBuild ==
    \E tk \in {<<"A">>, SearchSymbol} : \E earnings \in {"null", "data"} :
        BuildFinancialData(tk, earnings)

SpecBuild == InitBuild /\ [][NextBuild]_vars

RequestFailed(c) ==
    \/ c.pc = "thrown"
    \/ c.pc = "returned" /\ ~Ok(c.result)

RequiredSucceeded ==
    \A r \in Required :
        /\ tasks[r].pc = "returned"
        /\ Ok(tasks[r].result)
        /\ tasks[r].result.body = "data"

OptionalDataOf(t) == IF t = "quote" THEN yahooData ELSE earningsData

\* C4: when the four required fetches succeed and an optional fetch (quote or
\* earnings) fails after its retries (non-ok response, retries exhausted on
\* 429, or a network error on every attempt) the run is not aborted: it goes
\* on to the /api/analyze call and the optional data is recorded as null.
C4_OptionalFailureTolerated ==
    (/\ RequiredSucceeded
     /\ \A t \in Optional : Settled(tasks[t])
     /\ \E t \in Optional : RequestFailed(tasks[t])) =>
        /\ tasks["analyze"].attempts >= 1
        /\ \A t \in Optional : RequestFailed(tasks[t]) => OptionalDataOf(t) = "null"

\* C5: when a required fetch ultimately fails (non-ok response, or retries
\* exhausted on 429 or on network errors) the run aborts without calling
\* /api/analyze and the error names a required request that failed.
\* (Stated for the runs in which no optional request throws, so that a
\* violation does not rest on the failure of C4.)
C5_RequiredFailureNamed ==
    (/\ \A t \in Gathered : Settled(tasks[t])
     /\ \A t \in Optional : tasks[t].pc # "thrown"
     /\ \E r \in Required : RequestFailed(tasks[r])) =>
        /\ phase = "done"
        /\ isAnalyzing = FALSE
        /\ analysis = "null"
        /\ tasks["analyze"].attempts = 0
        /\ error \in { FailedToFetch(r) : r \in { q \in Required : RequestFailed(tasks[q]) } }

Arrived(r) == r.pc # "new"

\* C6: for a route behind cacheMiddleware, once a request for URL u has been
\* answered with status 200, every later request for u that arrives before
\* the entry expires is answered with the stored body, and neither the route
\* handler nor the provider call runs for it.
C6_HitShortCircuitsHandler ==
    \A id \in 1..MaxRequests :
        (Arrived(reqs[id]) /\ Cached(reqs[id].url) /\ reqs[id].age = "fresh") =>
            /\ reqs[id].pc = "done"
            /\ reqs[id].hit
            /\ reqs[id].status = 200
            /\ reqs[id].body = reqs[id].expect
            /\ reqs[id].body.url = reqs[id].url
            /\ ~reqs[id].ran
            /\ ~reqs[id].provider

C6_Witness ==
    \E id \in 1..MaxRequests :
        /\ reqs[id].url = <<"income", "A">>
        /\ reqs[id].age = "fresh"
        /\ reqs[id].hit
        /\ reqs[id].body = Body(<<"income", "A">>, "data")
        /\ now > 0

\* C7: a cache entry is never served after its time-to-live (3600 s) has
\* elapsed since it was stored: a request arriving after expiry is a miss and
\* runs the handler, whether or not the sweep has already removed the entry.
C7_ExpiredEntryNeverServed ==
    \A id \in 1..MaxRequests :
        (Arrived(reqs[id]) /\ Cached(reqs[id].url)) =>
            /\ reqs[id].hit => reqs[id].age \in {"fresh", "boundary"}
            /\ reqs[id].age = "stale" => (~reqs[id].hit /\ reqs[id].ran)

C7_Witness ==
    \E id \in 1..MaxRequests :
        /\ reqs[id].age = "stale"
        /\ reqs[id].sawEntry
        /\ ~reqs[id].hit
        /\ reqs[id].ran

\* C8: the response cache only ever holds bodies of status-200 responses
\* that carry real provider data; a failure outcome, an upstream payload
\* that lacks the requested statement included, is never stored, so no
\* request is served such a body from the cache.
C8_CacheHoldsOnlyProviderData ==
    /\ \A u \in Urls :
          (u[1] = "income" /\ cache[u] # NoEntry) => cache[u].v.kind = "data"
    /\ \A id \in 1..MaxRequests :
          (reqs[id].url[1] = "income" /\ reqs[id].hit) => reqs[id].body.kind = "data"

\* C9 (as claimed): per client IP, within any 15-minute interval at most 100
\* requests to /api/ paths and at most 10 requests to POST /api/analyze reach
\* their handlers; each request over a limit is answered 429 with a message
\* and is not processed.
C9_AnyWindowWithinLimit ==
    /\ probe.count <= (IF probe.kind = "api" THEN ApiMax ELSE StrictMax)
    /\ lastOut.status = 429 => (lastOut.message # "" /\ ~lastOut.handled)

\* C9 (amended): per client IP, between two resets of the limiter's counter
\* (a fixed 15-minute window that starts with the client's first counted
\* request) at most 100 requests to /api/ paths and at most 10 requests to
\* POST /api/analyze reach their handlers; each request over a limit is
\* answered 429 with the limiter's message and is not processed.
C9_FixedWindowWithinLimit ==
    /\ passed.api <= ApiMax
    /\ passed.strict <= StrictMax
    /\ lastOut.status = 429 =>
          (lastOut.message \in {ApiMessage, StrictMessage} /\ ~lastOut.handled)
    /\ lastOut.handled => lastOut.status # 429
    /\ \A ip \in ClientIps :
          /\ apiStore[ip].hits > 100 =>
                lastOut = Out(lastOut.kind, 429, ApiMessage, FALSE)
          /\ (lastOut.kind = "analyze" /\ strictStore[ip].hits > 10) =>
                (lastOut.status = 429 /\ ~lastOut.handled)

C9_Witness ==
    /\ limNow >= WindowMs
    /\ passed.strict = StrictMax
    /\ lastOut = Out("analyze", 429, StrictMessage, FALSE)
    /\ probe.kind = "analyze"
    /\ probe.count > StrictMax

\* C10: when the credential a route needs is absent (ALPHA_VANTAGE_API_KEY
\* for the data routes, ANTHROPIC_API_KEY for /api/analyze) every request to
\* that route is answered with the 'API key not configured' error and no
\* provider call is made, whatever was served before.
C10_MissingKeyRejected ==
    \A id \in 1..MaxRequests :
        (/\ Arrived(reqs[id])
         /\ \/ reqs[id].url[1] \in {"income", "overview"} /\ ~env.alpha
            \/ reqs[id].url[1] = "analyze" /\ ~env.anthropic) =>
            /\ reqs[id].pc = "done"
            /\ reqs[id].status = 500
            /\ reqs[id].body.kind = IF reqs[id].url[1] = "analyze"
                                     THEN "Anthropic API key not configured"
                                     ELSE "Alpha Vantage API key not configured"
            /\ ~reqs[id].provider
            /\ ~reqs[id].hit

C10_Witness ==
    /\ ~env.alpha
    /\ ~env.anthropic
    /\ reqs[1].url = <<"income", "A">>
    /\ reqs[1].status = 500
    /\ reqs[2].url = <<"analyze", "-">>
    /\ reqs[2].status = 500

Is429(o) == o.kind = "response" /\ o.status = 429

AllRateLimited(c) ==
    /\ c.hist # << >>
    /\ \A k \in 1..Len(c.hist) : Is429(c.hist[k])

\* C1: when every attempt of fetchWithRetry(url, options, maxRetries) yields
\* HTTP 429, the call makes exactly maxRetries fetch attempts, the wait taken
\* between attempt i and attempt i+1 (i counted from 0) is 2^i seconds, and
\* the call ends by throwing instead of returning a response.
C1_RetryBound ==
    /\ AllRateLimited(call) => call.attempts <= call.max
    /\ (Settled(call) /\ AllRateLimited(call)) =>
          /\ call.pc = "thrown"
          /\ call.result = NoResult
          /\ call.attempts = call.max
          /\ Len(call.hist) = call.max
          /\ Len(call.waits) >= call.max - 1
          /\ \A k \in 1..(call.max - 1) : call.waits[k] = (2 ^ (k - 1)) * 1000

C1_Witness ==
    /\ call.pc = "thrown"
    /\ AllRateLimited(call)
    /\ call.max = 3
    /\ call.attempts = 3

\* C2: when an attempt settles with a response whose status is not 429
\* (404 and 500 included) that response is returned at once: no fetch attempt
\* and no backoff wait follows it.
C2_NonRateLimitedReturnedAtOnce ==
    (call.hist # << >> /\ call.hist[Len(call.hist)].kind = "response"
                       /\ call.hist[Len(call.hist)].status # 429) =>
        /\ call.pc = "returned"
        /\ call.result = call.hist[Len(call.hist)]
        /\ call.attempts = Len(call.hist)
        /\ Len(call.waits) = Len(call.hist) - 1

C2_Witness ==
    /\ call.pc = "returned"
    /\ call.result.status = 404
    /\ call.attempts = 1
    /\ call.waits = << >>

\* C3: if the first k attempts (k < maxRetries) each fail transiently (a 429
\* response or a thrown network error, in any mix) and attempt k+1 settles
\* with a non-429 response, the call returns that response after exactly k+1
\* fetch attempts; in particular it has not given up before attempt k+1.
C3_ReturnsAfterTransientFailures ==
    \A k \in 0..(call.max - 1) :
        /\ (Len(call.hist) = k /\ \A j \in 1..k : IsTransient(call.hist[j])) =>
              /\ call.pc \in {"fetching", "backoff"}
              /\ call.attempts \in {k, k + 1}
              /\ call.pc = "fetching" => call.attempts = k + 1
        /\ (/\ Len(call.hist) = k + 1
            /\ \A j \in 1..k : IsTransient(call.hist[j])
            /\ ~IsTransient(call.hist[k + 1])) =>
              /\ call.pc = "returned"
              /\ call.result = call.hist[k + 1]
              /\ call.attempts = k + 1

C3_Witness ==
    /\ call.pc = "returned"
    /\ Len(call.hist) = 3
    /\ Is429(call.hist[1])
    /\ call.hist[2].kind = "error"
    /\ call.result.status = 200
    /\ call.attempts = 3

Absent(v) == v = JsUndefined \/ v = JsNull \/ v = Str(NoneWord) \/ v = Str(<< >>)

\* C11: parseFinancialNumber returns a finite number for every input (number,
\* numeric string, the "None" sentinel, null, undefined, empty or blank
\* string, non-numeric string, object, array): 0 for the sentinel, for absent
\* and for unparseable inputs, the parsed value otherwise; never NaN,
\* undefined or an infinity.
C11_ParseReturnsFiniteNumber ==
    ret # NotCalled =>
        /\ IsFinite(ret)
        /\ (Absent(arg) \/ IsNaN(ParseFloat(arg))) => ret = Zero
        /\ ~(Absent(arg) \/ IsNaN(ParseFloat(arg))) => ret = ParseFloat(arg)

Unknown(v) == v = JsUndefined \/ v = Str(NoneWord)

MarketFieldKept(out, up) ==
    /\ Unknown(up) => out = JsNull
    /\ ~Unknown(up) => out = ParseFloat(up)

\* C12: in the financial data built by analyzeCompany every market field
\* whose upstream value is absent or "None" is null, never 0, and a known
\* upstream value, a genuine 0 included, is kept as that number.
C12_MarketFieldsUnknownOrKept ==
    financialData.built =>
        LET md == financialData.marketData
            profile == payload.profile[1]
        IN  /\ MarketFieldKept(md.marketCap, profile.MarketCapitalization)
            /\ MarketFieldKept(md.beta, profile.Beta)
            /\ MarketFieldKept(md.trailingPE, profile.PERatio)
            /\ MarketFieldKept(md.forwardPE, profile.ForwardPE)
            /\ MarketFieldKept(md.priceToBook, profile.PriceToBookRatio)
            /\ MarketFieldKept(md.fiftyTwoWeekHigh, profile.Week52High)
            /\ MarketFieldKept(md.fiftyTwoWeekLow, profile.Week52Low)
            /\ MarketFieldKept(md.sharesOutstanding, profile.SharesOutstanding)

\* the values of the fields of record r other than its fiscalYear
FieldValues(r) == { r[k] : k \in DOMAIN r \ {"fiscalYear"} }

NumericFields(fd) ==
    FieldValues(fd.marketData) \cup FieldValues(fd.incomeStatement)
    \cup FieldValues(fd.balanceSheet) \cup FieldValues(fd.cashFlow)
    \cup UNION { FieldValues(fd.historicalData.incomeStatements[i]) :
                   i \in 1..Len(fd.historicalData.incomeStatements) }
    \cup UNION { FieldValues(fd.historicalData.balanceSheets[i]) :
                   i \in 1..Len(fd.historicalData.balanceSheets) }
    \cup UNION { FieldValues(fd.historicalData.cashFlows[i]) :
                   i \in 1..Len(fd.historicalData.cashFlows) }

\* C13: no numeric field of the financial data is NaN or infinite; where a
\* ratio's denominator is zero (revenue = 0 in a year's grossMargin) the field
\* holds an explicit fallback instead of the quotient.
C13_NoFieldNaNOrInfinite ==
    financialData.built =>
        /\ \A v \in NumericFields(financialData) : ~IsNaN(v) /\ ~IsInfinite(v)
        /\ \A i \in 1..Len(financialData.historicalData.incomeStatements) :
              LET yr == financialData.historicalData.incomeStatements[i] IN
              IsZero(yr.revenue) => (yr.grossMargin = JsNull \/ IsFinite(yr.grossMargin))

\* C14: the effective tax rate is taxExpense / preTaxIncome when the coerced
\* pre-tax income is not zero and the fallback 0.21 when it is zero; it is
\* never NaN or undefined.
C14_TaxRateOrFallback ==
    financialData.built =>
        LET income == payload.income[1]
            tax == parseFinancialNumber(income.incomeTaxExpense)
            pti == parseFinancialNumber(income.incomeBeforeTax)
            rate == financialData.incomeStatement.taxRate
        IN  /\ IsZero(pti) => rate = Num(21, 100, 0)
            /\ ~IsZero(pti) => rate = Div(tax, pti)
            /\ IsNumber(rate) /\ ~IsNaN(rate)

UpstreamYears(a) == { a[i].fiscalDateEnding : i \in 1..Len(a) }

\* the k most recent of the years in set ys
MostRecent(ys, k) == { y \in ys : Cardinality({ z \in ys : z > y }) < k }

SeriesInOrder(series, upstream) ==
    /\ Len(series) = Min(Len(upstream), 5)
    /\ { series[i].fiscalYear : i \in 1..Len(series) } =
          MostRecent(UpstreamYears(upstream), 5)
    /\ \A i, j \in 1..Len(series) : i < j => series[i].fiscalYear > series[j].fiscalYear

\* C15: for upstream statement arrays of any length n >= 1 each historical
\* series holds exactly min(n, 5) entries, they are the most recent fiscal
\* years of the upstream data, and they are in descending fiscal-date order
\* whatever order the provider sent them in.
C15_HistoryRecentDescending ==
    financialData.built =>
        /\ SeriesInOrder(financialData.historicalData.incomeStatements, payload.income)
        /\ SeriesInOrder(financialData.historicalData.balanceSheets, payload.balance)
        /\ SeriesInOrder(financialData.historicalData.cashFlows, payload.cashflow)
        /\ financialData.historicalData.yearsAvailable = Min(Len(payload.income), 5)

IsEmptyBody(t) == tasks[t].result.body = "empty"

AllOkSomeEmpty ==
    /\ \A t \in Gathered : tasks[t].pc = "returned" /\ Ok(tasks[t].result)
    /\ \E r \in Required : IsEmptyBody(r)

FirstEmptyMessage ==
    IF IsEmptyBody("profile") THEN "No data found for ticker"
    ELSE IF IsEmptyBody("income") THEN "No income statement data available"
    ELSE IF IsEmptyBody("balance") THEN "No balance sheet data available"
    ELSE "No cash flow data available"

\* C16: when all six fetches succeed but the payload of a required request
\* is empty, the run ends with the error that names the missing statement,
\* the first one in the order profile, income, balance, cash flow when
\* several are empty; /api/analyze is never called and analysis stays null.
C16_EmptyPayloadNamed ==
    [][ AllOkSomeEmpty' =>
          /\ phase' = "done"
          /\ analysis' = "null"
          /\ tasks'["analyze"].attempts = 0
          /\ phase = "gather" => (error' = FirstEmptyMessage' /\ isAnalyzing' = FALSE) ]_vars

C16_Witness ==
    /\ AllOkSomeEmpty
    /\ ~IsEmptyBody("profile")
    /\ IsEmptyBody("income")
    /\ IsEmptyBody("balance")
    /\ error = "No income statement data available"
    /\ phase = "done"

\* C18: every run of analyzeCompany that passes its precondition checks ends
\* with isAnalyzing = false and exactly one of analysis and error set.
C18_RunEndsWithAnalysisOrError ==
    [][ (phase # "done" /\ phase' = "done") =>
          /\ isAnalyzing' = FALSE
          /\ \/ analysis' # "null" /\ error' = "null"
             \/ analysis' = "null" /\ error' # "null" ]_vars

BlankInput == companyInput \in { << >>, <<" ">> }

\* C19: analyzeCompany called with an empty or whitespace-only input, or
\* while the backend is not connected, sets the corresponding error message
\* and does nothing else: no fetch is issued, isAnalyzing stays false and
\* analysis is left unchanged.
C19_EarlyReturnFrame ==
    [][ (phase \in {"idle", "done"} /\ (BlankInput \/ ~backendConnected)) =>
          /\ isAnalyzing = FALSE /\ isAnalyzing' = FALSE
          /\ analysis' = analysis
          /\ phase' = phase
          /\ \A t \in TaskNames : tasks'[t].attempts >= 1 => tasks[t].attempts >= 1
          /\ error' # error =>
                /\ error' = (IF BlankInput THEN "Please enter a company name or ticker symbol"
                             ELSE "Backend server not connected. Please check your connection.")
                /\ tasks' = tasks ]_vars

C19_Witness ==
    /\ phase = "done"
    /\ companyInput = <<" ">>
    /\ backendConnected
    /\ error = "Please enter a company name or ticker symbol"
    /\ analysis = "parsed"
    /\ ~isAnalyzing

AnalyzeBody == tasks["analyze"].result.body

\* C20: the text returned by /api/analyze is stripped of code-fence markers
\* and parsed as JSON: when parsing fails the run ends with the error 'Could
\* not parse analysis results. Please try again.' and analysis stays null;
\* when it succeeds analysis is the parsed value and error is null.
C20_AnalysisTextParsed ==
    [][ (/\ phase = "analyze" /\ phase' = "done"
         /\ tasks'["analyze"].pc = "returned"
         /\ Ok(tasks'["analyze"].result)
         /\ AnalyzeBody' # "empty") =>
          /\ isAnalyzing' = FALSE
          /\ AnalyzeBody' \in {"data", "fenced", "fencedplain"} =>
                (analysis' = "parsed" /\ error' = "null")
          /\ AnalyzeBody' = "nulltext" => (analysis' = "null" /\ error' = "null")
          /\ AnalyzeBody' = "garbage" =>
                (analysis' = "null"
                 /\ error' = "Could not parse analysis results. Please try again.") ]_vars

C20_Witness ==
    /\ phase = "done"
    /\ AnalyzeBody = "fenced"
    /\ analysis = "parsed"
    /\ error = "null"
    /\ ~isAnalyzing

BetaOf(companyData) ==
    IF companyData = JsUndefined \/ companyData.marketData = JsUndefined THEN JsUndefined
    ELSE companyData.marketData.beta

\* C17: in POST /api/analyze the CAPM cost of equity is 0.045 + beta * 0.08
\* and is emitted in the prompt exactly when a beta is known; when beta is
\* unknown (null or absent) nothing is emitted and no default beta is used.
C17_CostOfEquityIffBetaKnown ==
    \A id \in 1..MaxRequests :
        (reqs[id].url[1] = "analyze" /\ reqs[id].provider) =>
            LET beta == BetaOf(reqs[id].data) IN
            /\ IsNumber(beta) =>
                  /\ reqs[id].wacc.emitted
                  /\ reqs[id].wacc.costOfEquity = Add(Num(45, 1, -3), Mul(beta, Num(8, 1, -2)))
            /\ ~IsNumber(beta) => reqs[id].wacc = NoWacc

(***************************************************************************)
(* SpecRateLimit: one fetchWithRetry call of the frontend whose attempts   *)
(* are requests to an Alpha Vantage route of the backend                   *)
(***************************************************************************)
AlphaUrls == { u \in Urls : NeedsAlphaKey(u) }

\* the Response the frontend's fetch resolves with for the answer of request r
ResponseOf(r) ==
    Response(r.status, IF r.body.kind \in {"data", "empty"} THEN r.body.kind ELSE "err")

\* the request of the call's current attempt has been answered
Answered == call.pc = "fetching" /\ reqs[call.attempts].pc = "done"

\* the fetch of the current attempt reaches its route
RateLimitArrive(u) ==
    /\ call.pc = "fetching"
    /\ call.attempts > 1 => u = reqs[1].url
    /\ Arrive(call.attempts, u, JsUndefined)

\* the backend's answer reaches the frontend: the awaited fetch resolves
RateLimitDeliver ==
    /\ Answered
    /\ call' = OnSettle(call, ResponseOf(reqs[call.attempts]))
    /\ UNCHANGED <<hookVars, serverVars, limiterVars, parseVars>>

InitRateLimit == InitRetry

NextRateLimit ==
    \/ \E m \in 1..MaxRequests : RetryCall(m)
    \/ \E u \in AlphaUrls : RateLimitArrive(u)
    \/ \E id \in 1..MaxRequests : \E o \in {"data", "note", "lacking", "throw"} :
          ProviderSettle(id, o)
    \/ RateLimitDeliver
    \/ RetryTimer
    \/ Sweep
    \/ Tick

SpecRateLimit == InitRateLimit /\ [][NextRateLimit]_vars

(***************************************************************************)
(* C21: an error response of the backend carries only its fixed message    *)
(***************************************************************************)
IsErrorResponse(r) == r.pc = "done" /\ r.status >= 400

\* C21: no error response sent by the backend contains the raw error body
\* returned by a provider: it is built from a fixed message only
C21_ErrorResponsesFixedOnly ==
    \A id \in 1..MaxRequests :
        IsErrorResponse(reqs[id]) => reqs[id].details = NoDetails

(***************************************************************************)
(* C22: a required fetch that exhausts its retries ends the run at once    *)
(***************************************************************************)
\* request t's call throws in this step
Throws(t) == tasks[t].pc # "thrown" /\ tasks'[t].pc = "thrown"

InFlight(c) == c.pc \in {"fetching", "backoff"}

\* C22: in the parallel fetch, the step in which a required fetch exhausts
\* its retries ends the run with that fetch's error, whatever its siblings
\* are doing; a sibling that settles after the run has ended changes none of
\* analysis, error and isAnalyzing
C22_RequiredExhaustionEndsRun ==
    [][ /\ \A t \in Required :
             (phase = "gather" /\ Throws(t)) =>
                 /\ phase' = "done"
                 /\ error' = tasks'[t].thrown
                 /\ isAnalyzing' = FALSE
        /\ (phase = "done" /\ tasks' # tasks) =>
                 UNCHANGED <<analysis, error, isAnalyzing>> ]_vars

\* a run ended by a required fetch while a sibling was still in flight
C22_Witness ==
    /\ phase = "done"
    /\ isAnalyzing = FALSE
    /\ \E t \in Required :
          /\ tasks[t].pc = "thrown"
          /\ error = tasks[t].thrown
          /\ \E g \in Gathered \ {t} : InFlight(tasks[g])
          /\ \E g \in Gathered \ {t} : tasks[g].pc = "returned"

(***************************************************************************)
(* C23: what the join of the parallel fetch waits for                      *)
(***************************************************************************)
\* C23: once the four required fetches have all settled the run is past the
\* join: it is not held there by an optional fetch that is still in flight
\* or backing off
C23_JoinWaitsOnlyForRequired ==
    (\A r \in Required : Settled(tasks[r])) => phase # "gather"

(***************************************************************************)
(* C24: termination of fetchWithRetry                                      *)
(***************************************************************************)
\* C24: every fetchWithRetry call eventually returns or throws, even if the
\* fetch of an attempt never settles
C24_CallEventuallySettles ==
    (call.pc = "fetching") ~> Settled(call)

(***************************************************************************)
(* C25: the provider's rate-limit payload                                  *)
(***************************************************************************)
\* the provider answers request id with its rate-limit payload in this step
NoteAnswered(id) ==
    reqs[id].pc = "upstream" /\ reqs'[id].pc = "done" /\ reqs'[id].reply = "note"

RateLimited(r) == r.pc = "done" /\ r.status = 429

\* C25: a Note payload makes the backend answer 429 and store nothing; the
\* frontend's call backs off and retries on that 429, throws only after
\* maxRetries attempts, and returns the response of an attempt that gets data
C25_NoteRetriedThenSurfaced ==
    [][ /\ \A id \in 1..MaxRequests :
             NoteAnswered(id) => reqs'[id].status = 429 /\ cache' = cache
        /\ (Answered /\ call' # call /\ RateLimited(reqs[call.attempts])) =>
             /\ call'.pc = "backoff"
             /\ call'.waits = Append(call.waits, WaitTime(call.i))
        /\ (call.pc # "thrown" /\ call'.pc = "thrown") =>
             /\ call'.attempts = call'.max
             /\ \A k \in 1..call'.max : RateLimited(reqs[k])
        /\ (Answered /\ call' # call /\ reqs[call.attempts].reply = "data") =>
             /\ call'.pc = "returned"
             /\ call'.result = Response(200, "data") ]_vars

\* a call that was rate limited on its first attempt and returned data on
\* its second
C25_Witness ==
    /\ call.pc = "returned"
    /\ call.attempts = 2
    /\ call.waits = <<WaitTime(0)>>
    /\ reqs[1].reply = "note"
    /\ reqs[2].reply = "data"
    /\ call.result = Response(200, "data")

(***************************************************************************)
(* C26: the cache under concurrent requests                                *)
(***************************************************************************)
\* C26: whatever the interleaving of the requests, the cache entry of a URL
\* is the body of a status-200 response a handler produced for that URL, and
\* a response served from the cache was produced for the URL it answers
C26_CacheEntriesKeyedByUrl ==
    /\ \A u \in Urls :
          cache[u] # NoEntry =>
              /\ Cached(u)
              /\ cache[u].v.url = u
              /\ cache[u].v = answered[u].body
    /\ \A id \in 1..MaxRequests :
          (reqs[id].pc = "done" /\ reqs[id].hit) => reqs[id].body.url = reqs[id].url

\* the later of two requests was answered 200 by its handler and cached
\* while the earlier one, for another URL, is still waiting for the provider
C26_Witness ==
    /\ reqs[1].pc = "upstream"
    /\ reqs[2].pc = "done" /\ reqs[2].status = 200 /\ ~reqs[2].hit
    /\ reqs[1].url # reqs[2].url
    /\ Cached(reqs[1].url)
    /\ cache[reqs[2].url] # NoEntry

(***************************************************************************)
(* C30: yearsAvailable and the lengths of the historical series            *)
(***************************************************************************)
\* C30: in the historical data, yearsAvailable is the number of entries of
\* each of incomeStatements, balanceSheets and cashFlows
C30_YearsAvailableIsEverySeriesLength ==
    financialData.built =>
        /\ financialData.historicalData.yearsAvailable =
               Len(financialData.historicalData.incomeStatements)
        /\ financialData.historicalData.yearsAvailable =
               Len(financialData.historicalData.balanceSheets)
        /\ financialData.historicalData.yearsAvailable =
               Len(financialData.historicalData.cashFlows)

(***************************************************************************)
(* C29: a failed ticker lookup                                             *)
(***************************************************************************)
\* the search call of the run settles in this step
SearchSettles == phase = "search" /\ Settled(tasks'["search"])

C27_AnalyzingWhileAnyRunInFlight ==
    (RunInFlight \/ other = "running") => isAnalyzing = TRUE

(***************************************************************************)
(* C28: the paywall of the page component                                  *)
(***************************************************************************)
\* analyzeCompany is called in this step, past its two early returns, by a
\* user who has not paid and has had an analysis
BlockedCall ==
    /\ \E f \in {"analyze", "none"} : ComponentAnalyze(f)
    /\ PreconditionError(companyInput, backendConnected) = "null"
    /\ ~isPaid
    /\ analysisCount >= 1

\* the run ends in this step with setError
RunFails == phase # "done" /\ phase' = "done" /\ error' # "null"

\* C28: for a user who has not paid, a call made once analysisCount >= 1
\* issues no fetch and shows the paywall; a successful analysis adds exactly
\* 1 to analysisCount and a failed one leaves it; so a user who has not paid
\* obtains at most one successful analysis
C28_PaywallLimitsFreeAnalyses ==
    [][ /\ BlockedCall =>
             /\ showPaywall' = TRUE
             /\ tasks' = tasks
             /\ isAnalyzing' = FALSE
        /\ RunSucceeds => analysisCount' = analysisCount + 1
        /\ RunFails => analysisCount' = analysisCount
        /\ freeAnalyses' <= 1 ]_vars

\* a user who has not paid obtained one analysis and, calling again, was
\* shown the paywall
C28_Witness ==
    /\ ~isPaid
    /\ freeAnalyses = 1
    /\ analysisCount = 1
    /\ analysis = "parsed"
    /\ showPaywall
    /\ ~isAnalyzing

====
